---- MODULE Spec2Model ----
(***************************************************************************)
(* Model of the version-resolution and remote-synchronization engine of    *)
(* external_updater: updater_utils.get_latest_version and its parsing      *)
(* helpers, GitUpdater / GithubArchiveUpdater.setup_remote, GitUpdater     *)
(* .check, git_utils.is_ancestor, get_most_recent_tag and merge,           *)
(* external_updater.print_project_status, check_and_update (the choice of  *)
(* the version of an update) and check_and_update_path (the batch loop).   *)
(*                                                                         *)
(* Specifications: Spec (validate and check of one project), SpecUpdate    *)
(* (construction, check and the steps of the update of one project),       *)
(* SpecBatch (the loop over the projects), and one harness per function:   *)
(* SpecVersion, SpecDescribe, SpecAncestor, SpecMerge, SpecBranch          *)
(* (detect_default_branch), SpecCreate (create_updater), SpecTree          *)
(* (find_tree_containing) and SpecAnswer (use_alternative_version).        *)
(*                                                                         *)
(* Strings are sequences of one-character strings, so that parsing a       *)
(* version (prefix, integer segments, suffix) is computed, not assumed.    *)
(***************************************************************************)
EXTENDS Integers, Sequences, FiniteSets, TLC

VARIABLES
    \* ---- updater_utils.get_latest_version (pure function harness) ----
    current_version,   \* argument current_version
    version_list,      \* argument version_list
    latest,            \* outcome of get_latest_version, or Unset
    \* ---- one project's git updater ----
    remotes,           \* local git remote configuration: name -> url or None
    old_identifier,    \* self._old_identifier: [type, value, version]
    new_identifier,    \* self._new_identifier: [type, value, version]
    alternative_new_ver, \* self._alternative_new_ver
    updater_cls,       \* "GitUpdater" or "GithubArchiveUpdater"
    repo,              \* upstream repository: [parent, head, tags]
    pc,                \* position inside setup_remote / check
    caller,            \* operation that invoked setup_remote
    current_remote_url,\* local of setup_remote
    fetched_from,      \* url the last git fetch of update_origin contacted
    setup_done,        \* setup_remote has succeeded for the current url
    op_result,         \* how the last command ended: "ok" or the exception
    status_output,     \* lines printed by print_project_status
    args,              \* command line: [update_lib, custom_version, refresh]
    passed_identifier, \* the identifier as the caller passed it to __init__
    third_party_version, \* metadata.third_party.version, old_ver of __init__
    merged,            \* the ref updater.update() has merged, or None
    steps,             \* the steps of the command done so far, in order
    \* ---- git_utils.get_most_recent_tag (function harness) ----
    describe_repo,     \* the repository: [parent, head, tags]
    describe_branch,   \* argument branch
    describe_out,      \* outcome of get_most_recent_tag, or DescribeUnset
    describe_run,      \* the completed git describe of that call, or NoRun
    \* ---- git_utils.is_ancestor (function harness) ----
    anc_repo,          \* the repository: [parent, head, tags]
    anc_ancestor,      \* argument ancestor
    anc_child,         \* argument child
    anc_out,           \* outcome of is_ancestor(ancestor, child), or "unset"
    anc_rev,           \* outcome of is_ancestor(child, ancestor), or "unset"
    \* ---- git_utils.merge (function harness) ----
    merge_tree,        \* the project's repository and working tree before
    merge_branch,      \* argument branch: how it relates to the local HEAD
    merge_out,         \* outcome of merge: [status, returncode, tree]
    \* ---- external_updater.check_and_update_path (batch run) ----
    batch_paths,       \* argument paths
    external_exists,   \* whether <top>/external exists for this process
    batch_done,        \* number of completed iterations of the loop
    results,           \* the dict results, as a set of <<key, res>>
    batch_out,         \* "running", "returned" or the exception raised
    remote_show,       \* the lines `git remote show <remote>` prints
    branch_out,        \* outcome of detect_default_branch, or BranchUnset
    url_list,          \* metadata.third_party.url handed to create_updater
    updater_list,      \* the updater classes handed to create_updater
    valid_urls,        \* the urls git ls-remote accepts
    create_out,        \* outcome of create_updater, or CreateUnset
    repo_dirs,         \* the directories that have a .repo entry
    cwd,               \* the current working directory
    tree_project,      \* the argument of find_tree_containing
    tree_pos,          \* the argument of the innermost recursive call
    tree_out,          \* outcome of find_tree_containing, or TreeUnset
    user_answer,       \* what the user types at the question
    answer_out         \* outcome of use_alternative_version, or "unset"

vars == <<current_version, version_list, latest, remotes, old_identifier,
          new_identifier, alternative_new_ver, updater_cls, repo, pc, caller,
          current_remote_url, fetched_from, setup_done, op_result,
          status_output, args, passed_identifier, third_party_version,
          merged, steps,
          describe_repo, describe_branch, describe_out, describe_run,
          anc_repo, anc_ancestor, anc_child, anc_out, anc_rev,
          merge_tree, merge_branch, merge_out,
          batch_paths, external_exists, batch_done, results, batch_out,
          remote_show, branch_out,
          url_list, updater_list, valid_urls, create_out,
          repo_dirs, cwd, tree_project, tree_pos, tree_out,
          user_answer, answer_out>>

version_vars == <<current_version, version_list, latest>>

updater_vars == <<remotes, old_identifier, new_identifier,
                  alternative_new_ver, updater_cls, repo, pc, caller,
                  current_remote_url, fetched_from, setup_done, op_result,
                  status_output, args, passed_identifier,
                  third_party_version, merged, steps>>

update_vars ==
    <<args, passed_identifier, third_party_version, merged, steps>>

describe_vars ==
    <<describe_repo, describe_branch, describe_out, describe_run>>

\* the variables of the git_utils function harnesses
ancestor_vars == <<anc_repo, anc_ancestor, anc_child, anc_out, anc_rev>>

merge_vars == <<merge_tree, merge_branch, merge_out>>

batch_vars == <<batch_paths, external_exists, batch_done, results, batch_out>>

branch_vars == <<remote_show, branch_out>>

\* the variables of the harnesses of the remaining functions
create_vars == <<url_list, updater_list, valid_urls, create_out>>

tree_vars == <<repo_dirs, cwd, tree_project, tree_pos, tree_out>>

answer_vars == <<user_answer, answer_out>>

util_vars == <<branch_vars, create_vars, tree_vars, answer_vars>>

git_harness_vars ==
    <<describe_vars, ancestor_vars, merge_vars, batch_vars, util_vars>>

\* Python's None where a string (a sequence of characters or of url tokens)
\* is expected: a one-token sequence no string of the model equals
None == <<"<None>">>

\* value of latest before get_latest_version has run
Unset == [status |-> "unset", msg |-> "", value |-> <<>>]

(***************************************************************************)
(* Bounds                                                                  *)
(***************************************************************************)
MaxCandidates == 3
NumCommits == 3

(***************************************************************************)
(* updater_utils: version parsing                                          *)
(***************************************************************************)
Digits == {"0", "1", "2", "3", "4", "5", "6", "7", "8", "9"}

\* int() of one decimal digit
DigitVal(c) ==
    CASE c = "0" -> 0 [] c = "1" -> 1 [] c = "2" -> 2 [] c = "3" -> 3
      [] c = "4" -> 4 [] c = "5" -> 5 [] c = "6" -> 6 [] c = "7" -> 7
      [] c = "8" -> 8 [] c = "9" -> 9

\* VERSION_SPLITTER_PATTERN = [\.\-_]
VERSION_SPLITTER_PATTERN == {".", "-", "_"}

\* position of the first digit at or after i, 0 when there is none:
\* the end of the group (?P<prefix>[^\d]*)
RECURSIVE FirstDigit(_, _)
FirstDigit(s, i) ==
    IF i > Len(s) THEN 0
    ELSE IF s[i] \in Digits THEN i
    ELSE FirstDigit(s, i + 1)

\* last position of the greedy digit run \d+ that starts at i
RECURSIVE DigitRunEnd(_, _)
DigitRunEnd(s, i) ==
    IF i + 1 <= Len(s) /\ s[i + 1] \in Digits
    THEN DigitRunEnd(s, i + 1)
    ELSE i

\* last position of the greedy group \d+([\.\-_]\d+)* whose first run ends at e
RECURSIVE VersionEnd(_, _)
VersionEnd(s, e) ==
    IF e + 2 <= Len(s) /\ s[e + 1] \in VERSION_SPLITTER_PATTERN
       /\ s[e + 2] \in Digits
    THEN VersionEnd(s, DigitRunEnd(s, e + 2))
    ELSE e

\* [int(v) for v in VERSION_SPLITTER_RE.split(version)] over s[i..e];
\* acc is the integer of the segment being read
RECURSIVE SplitInts(_, _, _, _)
SplitInts(s, i, e, acc) ==
    IF i > e THEN <<acc>>
    ELSE IF s[i] \in VERSION_SPLITTER_PATTERN
         THEN <<acc>> \o SplitInts(s, i + 1, e, 0)
         ELSE SplitInts(s, i + 1, e, acc * 10 + DigitVal(s[i]))

\* _parse_version: (version, prefix, suffix), or ValueError('Invalid version.')
_parse_version(version) ==
    LET b == FirstDigit(version, 1) IN
    IF b = 0
    THEN [ok |-> FALSE, version |-> <<>>, prefix |-> <<>>, suffix |-> <<>>]
    ELSE LET e == VersionEnd(version, DigitRunEnd(version, b)) IN
         [ok      |-> TRUE,
          version |-> SplitInts(version, b, e, 0),
          prefix  |-> SubSeq(version, 1, b - 1),
          suffix  |-> SubSeq(version, e + 1, Len(version))]

\* _match_and_get_version: the ranking key of one candidate, a Python list:
\* [] for an unparseable candidate, else [right_format, right_length, segments]
_match_and_get_version(old_ver, version) ==
    LET new_ver == _parse_version(version) IN
    IF ~new_ver.ok THEN <<>>
    ELSE <<new_ver.prefix = old_ver.prefix /\ new_ver.suffix = old_ver.suffix,
           Len(new_ver.version) = Len(old_ver.version),
           new_ver.version>>

\* the decimal text of a non-negative integer, as a sequence of digit values
RECURSIVE DecimalText(_)
DecimalText(n) ==
    IF n < 10 THEN <<n>> ELSE DecimalText(n \div 10) \o <<n % 10>>

\* segments compared as text: 10 sorts before 2
RECURSIVE IntListLess_AsText(_, _)
IntListLess_AsText(a, b) ==
    IF Len(a) = 0 THEN Len(b) > 0
    ELSE IF Len(b) = 0 THEN FALSE
    ELSE IF a[1] # b[1]
         THEN LET x == DecimalText(a[1])
                  y == DecimalText(b[1])
                  k == CHOOSE i \in 1..(Len(x) + 1) :
                           /\ \A j \in 1..(i - 1) : j <= Len(y) /\ x[j] = y[j]
                           /\ i > Len(x) \/ i > Len(y) \/ x[i] # y[i]
              IN  IF k > Len(x) THEN TRUE
                  ELSE IF k > Len(y) THEN FALSE
                  ELSE x[k] < y[k]
    ELSE IntListLess_AsText(Tail(a), Tail(b))

\* Python's < on lists of integers
RECURSIVE IntListLess(_, _)
IntListLess(a, b) ==
    IF Len(a) = 0 THEN Len(b) > 0
    ELSE IF Len(b) = 0 THEN FALSE
    ELSE IF a[1] # b[1] THEN a[1] < b[1]
    ELSE IntListLess(Tail(a), Tail(b))

\* Python's < on bool
BoolLess(a, b) == ~a /\ b

\* the segment count is left out of the ranking
KeyLess_IgnoreLength(a, b) ==
    IF Len(a) = 0 THEN Len(b) > 0
    ELSE IF Len(b) = 0 THEN FALSE
    ELSE IF a[1] # b[1] THEN BoolLess(a[1], b[1])
    ELSE IntListLess(a[3], b[3])

\* the key [] of an unparseable candidate is above every other key
KeyLess_EmptyIsGreatest(a, b) ==
    IF Len(b) = 0 THEN Len(a) > 0
    ELSE IF Len(a) = 0 THEN FALSE
    ELSE IF a[1] # b[1] THEN BoolLess(a[1], b[1])
    ELSE IF a[2] # b[2] THEN BoolLess(a[2], b[2])
    ELSE IntListLess(a[3], b[3])

\* Python's < on two ranking keys
KeyLess(a, b) ==
    IF Len(a) = 0 THEN Len(b) > 0
    ELSE IF Len(b) = 0 THEN FALSE
    ELSE IF a[1] # b[1] THEN BoolLess(a[1], b[1])
    ELSE IF a[2] # b[2] THEN BoolLess(a[2], b[2])
    ELSE IntListLess(a[3], b[3])

\* max(version_list, key=...): the first element whose key no later element
\* exceeds; best is the maximum of the elements before position i
RECURSIVE MaxByKey(_, _, _, _)
MaxByKey(old_ver, list, i, best) ==
    IF i > Len(list) THEN best
    ELSE IF KeyLess(_match_and_get_version(old_ver, best),
                    _match_and_get_version(old_ver, list[i]))
         THEN MaxByKey(old_ver, list, i + 1, list[i])
         ELSE MaxByKey(old_ver, list, i + 1, best)

\* get_latest_version: the returned name, or the ValueError raised
get_latest_version(current, list) ==
    LET parsed_current_ver == _parse_version(current) IN
    IF ~parsed_current_ver.ok
    THEN [status |-> "ValueError", msg |-> "Invalid version.", value |-> <<>>]
    ELSE LET found == IF Len(list) = 0 THEN <<>>
                      ELSE MaxByKey(parsed_current_ver, list, 2, list[1]) IN
         IF Len(found) = 0
         THEN [status |-> "ValueError", msg |-> "No matching version.",
               value |-> <<>>]
         ELSE [status |-> "ok", msg |-> "", value |-> found]

(***************************************************************************)
(* The upstream repository as the local clone sees it after a fetch        *)
(***************************************************************************)
Commits == 1..NumCommits

\* length of a SHA-1 name, COMMIT_PATTERN = ^[a-f0-9]{40}$
CommitLen == 40

HexChars == Digits \cup {"a", "b", "c", "d", "e", "f"}

\* is_commit: whether a string looks like a SHA1 hash
is_commit(commit) ==
    /\ Len(commit) = CommitLen
    /\ \A i \in 1..CommitLen : commit[i] \in HexChars

\* the object name of commit c: c000...0
Sha(c) ==
    [i \in 1..CommitLen |-> IF i = 1
                            THEN (CASE c = 1 -> "a" [] c = 2 -> "b"
                                    [] c = 3 -> "c" [] OTHER -> "d")
                            ELSE "0"]

\* the tag names "v1.0" and "v2.0", in the order git ls-remote --tags
\* prints them
TagOrder == << <<"v", "1", ".", "0">>, <<"v", "2", ".", "0">> >>

TagNames == {TagOrder[i] : i \in 1..Len(TagOrder)}

\* c is d or an ancestor of d (histories are linear: one parent per commit)
RECURSIVE Reaches(_, _, _)
Reaches(r, c, d) ==
    IF d = 0 THEN FALSE
    ELSE IF c = d THEN TRUE
    ELSE Reaches(r, c, r.parent[d])

\* the name of the default branch
BranchName == <<"m", "a", "i", "n">>

\* the commit a ref names, 0 when git cannot resolve it: a commit hash, a
\* (lightweight) tag, or the branch
ResolveRef(r, ref) ==
    IF \E c \in Commits : Sha(c) = ref
    THEN CHOOSE c \in Commits : Sha(c) = ref
    ELSE IF ref \in TagNames THEN r.tags[ref]
    ELSE IF ref = BranchName THEN r.head
    ELSE 0

\* get_sha_for_branch: git rev-parse, the hash printed or the failure
get_sha_for_branch(r, branch) ==
    IF ResolveRef(r, branch) = 0 THEN <<"CalledProcessError">>
    ELSE Sha(ResolveRef(r, branch))

\* the test for the same commit is missing: git merge-base alone decides
is_ancestor_NoSelfTest(r, ancestor, child) ==
    IF get_sha_for_branch(r, ancestor) = <<"CalledProcessError">>
    THEN "CalledProcessError"
    ELSE IF ResolveRef(r, child) = 0 THEN "CalledProcessError"
    ELSE IF Reaches(r, ResolveRef(r, ancestor), ResolveRef(r, child))
         THEN "True"
         ELSE "False"

\* every failure of git merge-base is taken for "not an ancestor"
is_ancestor_ErrorIsFalse(r, ancestor, child) ==
    IF get_sha_for_branch(r, ancestor) = <<"CalledProcessError">>
    THEN "CalledProcessError"
    ELSE IF get_sha_for_branch(r, ancestor) = child THEN "False"
    ELSE IF ResolveRef(r, child) = 0 THEN "False"
    ELSE IF Reaches(r, ResolveRef(r, ancestor), ResolveRef(r, child))
         THEN "True"
         ELSE "False"

\* is_ancestor: "True", "False", or the CalledProcessError that is raised
is_ancestor(r, ancestor, child) ==
    IF get_sha_for_branch(r, ancestor) = <<"CalledProcessError">>
    THEN "CalledProcessError"
    ELSE IF get_sha_for_branch(r, ancestor) = child THEN "False"
    ELSE IF ResolveRef(r, child) = 0 THEN "CalledProcessError"
    ELSE IF Reaches(r, ResolveRef(r, ancestor), ResolveRef(r, child))
         THEN "True"
         ELSE "False"

\* list_remote_tags followed by parse_remote_tag on every line: the names of
\* the upstream tags
list_remote_tags(r) == SelectSeq(TagOrder, LAMBDA t : r.tags[t] # 0)

\* lower case of the letters the tag names use
Lower(c) ==
    CASE c = "R" -> "r" [] c = "C" -> "c" [] c = "A" -> "a" [] c = "B" -> "b"
      [] c = "L" -> "l" [] c = "P" -> "p" [] c = "H" -> "h" [] c = "E" -> "e"
      [] c = "T" -> "t" [] c = "S" -> "s"
      [] OTHER -> c

HasSubstring(s, sub) ==
    \E i \in 1..Len(s) :
        /\ i + Len(sub) - 1 <= Len(s)
        /\ \A j \in 1..Len(sub) : Lower(s[i + j - 1]) = sub[j]

\* a tag with an alpha, beta, rc or test marker
IsUnstable(tag) ==
    \/ HasSubstring(tag, <<"a", "l", "p", "h", "a">>)
    \/ HasSubstring(tag, <<"b", "e", "t", "a">>)
    \/ HasSubstring(tag, <<"r", "c">>)
    \/ HasSubstring(tag, <<"t", "e", "s", "t">>)

\* get_latest_stable_release_tag: unstable tags are dropped, the maximum of
\* the rest under the ranking key is the latest tag, None when nothing is left
get_latest_stable_release_tag(current, tags) ==
    LET stable == SelectSeq(tags, LAMBDA t : ~IsUnstable(t)) IN
    IF ~_parse_version(current).ok THEN <<"ValueError">>
    ELSE IF Len(stable) = 0 THEN None
    ELSE MaxByKey(_parse_version(current), stable, 2, stable[1])

\* GitUpdater.latest_tag_of_upstream
latest_tag_of_upstream(r, old_version) ==
    get_latest_stable_release_tag(old_version, list_remote_tags(r))

\* GitUpdater.current_head_of_upstream_default_branch
current_head_of_upstream_default_branch(r) == Sha(r.head)

(***************************************************************************)
(* git_utils.get_most_recent_tag: git describe with the unwanted tags       *)
(* excluded                                                                *)
(***************************************************************************)
\* UNWANTED_TAGS: *alpha* *Alpha* *beta* *Beta* *rc* *RC* *test*
UNWANTED_TAGS ==
    << <<"*", "a", "l", "p", "h", "a", "*">>,
       <<"*", "A", "l", "p", "h", "a", "*">>,
       <<"*", "b", "e", "t", "a", "*">>,
       <<"*", "B", "e", "t", "a", "*">>,
       <<"*", "r", "c", "*">>,
       <<"*", "R", "C", "*">>,
       <<"*", "t", "e", "s", "t", "*">> >>

\* git's glob match of --exclude: * stands for any run of characters, every
\* other character for itself, letter case included
RECURSIVE WildMatch(_, _)
WildMatch(pattern, name) ==
    IF Len(pattern) = 0 THEN Len(name) = 0
    ELSE IF pattern[1] = "*"
         THEN \/ WildMatch(Tail(pattern), name)
              \/ Len(name) > 0 /\ WildMatch(pattern, Tail(name))
    ELSE /\ Len(name) > 0
         /\ pattern[1] = name[1]
         /\ WildMatch(Tail(pattern), Tail(name))

\* number of tags a repository of the describe harness carries at most
MaxTags == 2

\* "v1.0" "v2.0" "v3.28.0-rc1" "r26-beta1" "v2-ALPHA" "v2-Rc1" "v2-Test"
DescribeTagPool ==
    { <<"v", "1", ".", "0">>, <<"v", "2", ".", "0">>,
      <<"v", "3", ".", "2", "8", ".", "0", "-", "r", "c", "1">>,
      <<"r", "2", "6", "-", "b", "e", "t", "a", "1">>,
      <<"v", "2", "-", "A", "L", "P", "H", "A">>,
      <<"v", "2", "-", "R", "c", "1">>,
      <<"v", "2", "-", "T", "e", "s", "t">> }

\* the nearest commit at or before c that carries one of the names, 0 if
\* there is none
RECURSIVE NearestTagged(_, _, _)
NearestTagged(r, names, c) ==
    IF c = 0 THEN 0
    ELSE IF \E t \in names : r.tags[t] = c THEN c
    ELSE NearestTagged(r, names, r.parent[c])

\* 'token' in text, for a text kept as a sequence of tokens
InText(token, text) == \E i \in 1..Len(text) : text[i] = token

\* git describe --tags <branch> --abbrev=0 --exclude=...: the results git
\* can give; which of several tags on one commit is named is git's choice
GitDescribe(r, branch, excludes) ==
    LET names == {t \in DOMAIN r.tags :
                     /\ r.tags[t] # 0
                     /\ \A i \in 1..Len(excludes) :
                            ~WildMatch(excludes[i], t)}
        at    == NearestTagged(r, names, r.head) IN
    IF branch # "main"
    THEN {[returncode |-> 128, stdout |-> <<>>,
           stderr |-> <<"fatal: Not a valid object name">>]}
    ELSE IF names = {}
    THEN {[returncode |-> 128, stdout |-> <<>>,
           stderr |-> <<"fatal: No names found",
                        ", cannot describe anything.">>]}
    ELSE IF at = 0
    THEN {[returncode |-> 128, stdout |-> <<>>,
           stderr |-> <<"fatal: No tags can describe", " '<sha>'.">>]}
    ELSE {[returncode |-> 0, stdout |-> t, stderr |-> <<>>] :
              t \in {n \in names : r.tags[n] = at}}

\* what get_most_recent_tag makes of one result of git describe
\* every failure of git describe counts as "no tag"
MostRecentTagOf_EveryFailureIsNone(run) ==
    IF run.returncode = 0 THEN [status |-> "ok", value |-> run.stdout]
    ELSE [status |-> "ok", value |-> None]

\* get_most_recent_tag on a completed run of git describe
MostRecentTagOf(run) ==
    IF run.returncode = 0 THEN [status |-> "ok", value |-> run.stdout]
    ELSE IF InText("fatal: No names found", run.stderr)
    THEN [status |-> "ok", value |-> None]
    ELSE IF InText("fatal: No tags can describe", run.stderr)
    THEN [status |-> "ok", value |-> None]
    ELSE [status |-> "CalledProcessError", value |-> <<>>]

\* get_most_recent_tag: the outcomes it can have
get_most_recent_tag(r, branch) ==
    {MostRecentTagOf(run) : run \in GitDescribe(r, branch, UNWANTED_TAGS)}

\* value of describe_out before get_most_recent_tag has run
DescribeUnset == [status |-> "unset", value |-> <<>>]

\* value of describe_run before git describe has run
NoRun == [returncode |-> 0, stdout |-> <<>>, stderr |-> <<>>]

\* get_most_recent_tag is not under examination
DescribeIdle ==
    /\ describe_repo = [parent |-> <<0>>, head |-> 1, tags |-> <<>>]
    /\ describe_branch = "main"
    /\ describe_out = DescribeUnset
    /\ describe_run = NoRun

\* is_ancestor is not under examination
AncestorIdle ==
    /\ anc_repo = [parent |-> <<0>>, head |-> 1, tags |-> <<>>]
    /\ anc_ancestor = <<>>
    /\ anc_child = <<>>
    /\ anc_out = "unset"
    /\ anc_rev = "unset"

(***************************************************************************)
(* git_utils.merge and merge_conflict                                      *)
(***************************************************************************)
\* files of the project that can be left unmerged
Files == {"Android.bp", "README"}

\* git merge <branch> [--no-commit] on a tree [commits, head, unmerged,
\* merge_head]: the exit status and the tree it leaves.  commits counts the
\* commit objects of the local repository, head says where HEAD is,
\* merge_head that a merge is in progress
GitMerge(tree, branch, no_commit, conflicts) ==
    IF tree.merge_head \/ tree.unmerged # {}
    THEN [returncode |-> 128, tree |-> tree]
    ELSE IF branch = "unknown" THEN [returncode |-> 1, tree |-> tree]
    ELSE IF branch = "up_to_date" THEN [returncode |-> 0, tree |-> tree]
    ELSE IF branch = "fast_forward"
    THEN [returncode |-> 0, tree |-> [tree EXCEPT !.head = "branch"]]
    ELSE IF branch = "diverged_clean"
    THEN IF no_commit
         THEN [returncode |-> 0, tree |-> [tree EXCEPT !.merge_head = TRUE]]
         ELSE [returncode |-> 0,
               tree |-> [tree EXCEPT !.commits = tree.commits + 1,
                                     !.head = "merge_commit"]]
    ELSE [returncode |-> 1,
          tree |-> [tree EXCEPT !.merge_head = TRUE, !.unmerged = conflicts]]

\* merge_conflict: bool(output of git ls-files --unmerged)
merge_conflict(tree) == tree.unmerged # {}

\* the failure of git merge is never raised again
merge_NeverRaises(tree, branch, conflicts, ls_files_ok) ==
    LET run == GitMerge(tree, branch, TRUE, conflicts) IN
    IF run.returncode = 0
    THEN [status |-> "returned", returncode |-> run.returncode,
          tree |-> run.tree]
    ELSE IF ~ls_files_ok
    THEN [status |-> "CalledProcessError: git ls-files",
          returncode |-> run.returncode, tree |-> run.tree]
    ELSE [status |-> "returned", returncode |-> run.returncode,
          tree |-> run.tree]

\* merge: git merge <branch> --no-commit; on a failure the unmerged files
\* decide between a normal return and raising the failure again
merge(tree, branch, conflicts, ls_files_ok) ==
    LET run == GitMerge(tree, branch, TRUE, conflicts) IN
    IF run.returncode = 0
    THEN [status |-> "returned", returncode |-> run.returncode,
          tree |-> run.tree]
    ELSE IF ~ls_files_ok
    THEN [status |-> "CalledProcessError: git ls-files",
          returncode |-> run.returncode, tree |-> run.tree]
    ELSE IF ~merge_conflict(run.tree)
    THEN [status |-> "CalledProcessError: git merge",
          returncode |-> run.returncode, tree |-> run.tree]
    ELSE [status |-> "returned", returncode |-> run.returncode,
          tree |-> run.tree]

CleanTree ==
    [commits |-> 1, head |-> "local", unmerged |-> {}, merge_head |-> FALSE]

\* value of merge_out before merge has run
MergeUnset == [status |-> "unset", returncode |-> 0, tree |-> CleanTree]

\* merge is not under examination
MergeIdle ==
    /\ merge_tree = CleanTree
    /\ merge_branch = "up_to_date"
    /\ merge_out = MergeUnset

(***************************************************************************)
(* fileutils.canonicalize_project_path and the batch loop                  *)
(***************************************************************************)
\* paths are sequences of components; <top>/external
ExternalPath == <<"/aosp", "/external">>

\* Path.relative_to: the rest of the path below base, or the ValueError
relative_to(path, base) ==
    IF Len(path) >= Len(base) /\ SubSeq(path, 1, Len(base)) = base
    THEN SubSeq(path, Len(base) + 1, Len(path))
    ELSE <<"ValueError">>

\* external_path: the path of external, or the RuntimeError when it does
\* not exist
external_path(exists) ==
    IF exists THEN ExternalPath ELSE <<"RuntimeError">>

\* canonicalize_project_path of an absolute path: relative to external
\* inside this tree, the path itself in another tree; the RuntimeError of
\* external_path is not handled
canonicalize_project_path(proj_path, exists) ==
    IF external_path(exists) = <<"RuntimeError">> THEN <<"RuntimeError">>
    ELSE IF relative_to(proj_path, external_path(exists)) = <<"ValueError">>
    THEN proj_path
    ELSE relative_to(proj_path, external_path(exists))

\* check_and_update: the updater, or str(err) for an exception raised while
\* canonicalizing, building the updater, checking or updating
check_and_update(proj_path, exists, project_fails) ==
    IF canonicalize_project_path(proj_path, exists) = <<"RuntimeError">>
    THEN [kind |-> "str", text |-> "does not exist"]
    ELSE IF project_fails
    THEN [kind |-> "str", text |-> "check or update failed"]
    ELSE [kind |-> "Updater", text |-> ""]

\* the entry the loop builds from what check_and_update returned
ResultEntry(updater) ==
    IF updater.kind = "str" THEN [error |-> updater.text]
    ELSE [error |-> "<none: current and latest>"]

\* no batch is running
BatchIdle ==
    /\ batch_paths = <<>>
    /\ external_exists = TRUE
    /\ batch_done = 0
    /\ results = {}
    /\ batch_out = "idle"

\* none of the git_utils functions is under examination, no batch is running
\* value of branch_out before detect_default_branch has run
BranchUnset == <<"unset">>

\* detect_default_branch is not under examination
BranchIdle ==
    /\ remote_show = <<>>
    /\ branch_out = BranchUnset

\* value of create_out before create_updater has run
CreateUnset == [status |-> "unset", cls |-> "", url |-> 0]

\* create_updater is not under examination
CreateIdle ==
    /\ url_list = <<>>
    /\ updater_list = <<>>
    /\ valid_urls = {}
    /\ create_out = CreateUnset

\* value of tree_out before find_tree_containing has finished
TreeUnset == <<"unset">>

\* the root directory as a pathlib.Path: its parts
RootPath == <<"/">>

\* find_tree_containing is not under examination
TreeIdle ==
    /\ repo_dirs = {}
    /\ cwd = RootPath
    /\ tree_project = RootPath
    /\ tree_pos = RootPath
    /\ tree_out = RootPath

\* use_alternative_version is not under examination
AnswerIdle ==
    /\ user_answer = <<>>
    /\ answer_out = "idle"

UtilIdle == BranchIdle /\ CreateIdle /\ TreeIdle /\ AnswerIdle

GitHarnessIdle ==
    DescribeIdle /\ AncestorIdle /\ MergeIdle /\ BatchIdle /\ UtilIdle

(***************************************************************************)
(* GitUpdater.check after setup_remote, and the status report              *)
(***************************************************************************)
NoTagsError == "RuntimeError: no tags were found in the upstream repository"

\* a missing tag is taken for "nothing newer": no error is raised
CheckCandidates_NoTagIsUpToDate(r, old_version) ==
    LET tag  == latest_tag_of_upstream(r, old_version)
        head == current_head_of_upstream_default_branch(r) IN
    IF is_commit(old_version)
    THEN [result |-> "ok", version |-> head, possible |-> tag]
    ELSE IF tag = None
         THEN [result |-> "ok", version |-> old_version, possible |-> None]
         ELSE [result |-> "ok", version |-> tag, possible |-> head]

\* the version check() leaves in _new_identifier and the candidate for
\* _alternative_new_ver, before the ancestry test
CheckCandidates(r, old_version) ==
    LET tag  == latest_tag_of_upstream(r, old_version)
        head == current_head_of_upstream_default_branch(r) IN
    IF is_commit(old_version)
    THEN IF tag = <<"ValueError">>
         THEN [result |-> "ValueError", version |-> head, possible |-> None]
         ELSE [result |-> "ok", version |-> head, possible |-> tag]
    ELSE IF tag = <<"ValueError">>
         THEN [result |-> "ValueError", version |-> old_version,
               possible |-> None]
         ELSE IF tag = None
         THEN [result |-> NoTagsError, version |-> old_version,
               possible |-> None]
         ELSE [result |-> "ok", version |-> tag, possible |-> head]

\* GitUpdater.check after setup_remote: how it ends and what it leaves in
\* _new_identifier.version and _alternative_new_ver
GitCheck(r, old_version) ==
    LET cand == CheckCandidates(r, old_version)
        anc  == is_ancestor(r, old_version, cand.possible) IN
    IF cand.result # "ok" \/ cand.possible = None
    THEN [result |-> cand.result, version |-> cand.version, alt |-> None]
    ELSE IF anc = "CalledProcessError"
    THEN [result |-> "CalledProcessError", version |-> cand.version,
          alt |-> None]
    ELSE [result |-> "ok", version |-> cand.version,
          alt |-> IF anc = "True" THEN cand.possible ELSE None]

\* the version is stored in the value field as well
WithVersion_AlsoValue(identifier, version) ==
    [identifier EXCEPT !.version = version, !.value = version]

\* self._new_identifier.version = version
WithVersion(identifier, version) ==
    [identifier EXCEPT !.version = version]

\* has_new_version
\* every project counts as out of date
has_new_version_Always(cur_version, latest_version) == TRUE

\* has_new_version: the latest version of a GitUpdater is never None
has_new_version(cur_version, latest_version) == cur_version # latest_version

NotAvailable == <<"Not available">>

\* print_project_status: the latest-version line, the alternative line (None
\* when it is not printed) and the verdict line
print_project_status(cur_version, latest_version, alt_version) ==
    [latest      |-> IF Len(latest_version) = 0 THEN NotAvailable
                     ELSE latest_version,
     alternative |-> alt_version,
     verdict     |-> IF has_new_version(cur_version, latest_version)
                     THEN "Out of date!" ELSE "Up to date."]

NoStatus == [latest |-> None, alternative |-> None, verdict |-> "none"]

(***************************************************************************)
(* setup_remote                                                            *)
(***************************************************************************)
UPSTREAM_REMOTE_NAME == "update_origin"

RemoteNames == {UPSTREAM_REMOTE_NAME, "aosp", "unmirrored"}

\* urls are sequences of tokens
GitUrlA == <<"https", "://", "github.com", "/", "a", "/", "x">>
GitUrlB == <<"https", "://", "github.com", "/", "b", "/", "x">>
ArchiveUrlA == GitUrlA \o <<"/", "archive/", "v1.0.zip">>
ArchiveUrlB == GitUrlB \o <<"/", "releases/download/", "v1.0.zip">>
AndroidExternalUrl ==
    <<"https", "://", "android.googlesource.com", "/platform/external/", "x">>
LocalMirrorUrl == <<"/mirrors/android", "/platform/external/", "x">>
ToolchainUrl ==
    <<"persistent-https", "://", "android.git.corp.google.com",
      "/toolchain/", "x">>

\* 'token' in url
InUrl(token, url) == \E i \in 1..Len(url) : url[i] = token

\* a local mirror counts as the android remote
_is_likely_android_remote_AcceptsLocal(url) ==
    IF InUrl("/platform/external/", url) THEN TRUE
    ELSE IF InUrl("/toolchain/", url) THEN TRUE
    ELSE FALSE

\* GitUpdater._is_likely_android_remote
_is_likely_android_remote(url) ==
    IF ~InUrl("://", url) THEN FALSE
    ELSE IF InUrl("/platform/external/", url) THEN TRUE
    ELSE IF InUrl("/toolchain/", url) THEN TRUE
    ELSE FALSE

\* the url setup_remote configures: the identifier's value for GitUpdater,
\* https://github.com/{owner}/{repo} for GithubArchiveUpdater
UpstreamUrlOf(cls, identifier) ==
    IF cls = "GitUpdater" THEN identifier.value
    ELSE SubSeq(identifier.value, 1, 7)

\* the loop over list_remotes: the url of update_origin, or None
ScanCurrentRemoteUrl(rem) == rem[UPSTREAM_REMOTE_NAME]

\* the loop over list_remotes: whether an android remote was found
ScanAndroidRemote(rem) ==
    \E name \in RemoteNames :
        rem[name] # None /\ _is_likely_android_remote(rem[name])

\* the stale remote is kept: the test of the url is missing
SetupRemoteStep_KeepStale(cur_url, url) ==
    IF cur_url = None THEN "sr_add" ELSE "sr_fetch"

\* an existing remote is always replaced: the test of the url is missing
SetupRemoteStep_AlwaysReplace(cur_url, url) ==
    IF cur_url # None THEN "sr_remove" ELSE "sr_add"

\* the command setup_remote issues next, given its local current_remote_url
SetupRemoteStep(cur_url, url) ==
    IF cur_url # None /\ cur_url # url THEN "sr_remove"
    ELSE IF cur_url = None THEN "sr_add"
    ELSE "sr_fetch"

(***************************************************************************)
(* One project's updater: validate (setup_remote only) and check           *)
(* (setup_remote, the version decision, the status report).  Every git     *)
(* command is a step and may fail.                                         *)
(***************************************************************************)
AndroidRemoteError == "RuntimeError: Could not determine android remote"

UpstreamUrl == UpstreamUrlOf(updater_cls, old_identifier)

\* upstream histories: commit 1 is the root, every later commit has one
\* earlier parent; the default branch and the tags point anywhere
Repos ==
    {[parent |-> p, head |-> h, tags |-> t] :
        p \in {q \in [Commits -> 0..NumCommits] :
                   /\ q[1] = 0
                   /\ \A c \in Commits \ {1} : q[c] \in 1..(c - 1)},
        h \in Commits,
        t \in [TagNames -> 0..NumCommits]}

\* recorded versions: a commit hash or a tag name
OldVersions == {Sha(c) : c \in Commits} \cup {TagOrder[1], TagOrder[2]}

Identifiers ==
    {[type |-> "Git", value |-> u, version |-> v] :
        u \in {GitUrlA, GitUrlB}, v \in OldVersions}
    \cup
    {[type |-> "Archive", value |-> u, version |-> TagOrder[1]] :
        u \in {ArchiveUrlA, ArchiveUrlB}}

\* the class create_updater picks for an identifier
UpdaterClassOf(identifier) ==
    IF identifier.type = "Archive" THEN "GithubArchiveUpdater"
    ELSE "GitUpdater"

RemoteConfigs ==
    {rem \in [RemoteNames -> {None, GitUrlA, GitUrlB, AndroidExternalUrl,
                              LocalMirrorUrl, ToolchainUrl}] :
        /\ rem[UPSTREAM_REMOTE_NAME] \in {None, GitUrlA, GitUrlB}
        /\ rem["aosp"] \in {AndroidExternalUrl, LocalMirrorUrl}
        /\ rem["unmirrored"] \in {None, ToolchainUrl}}

\* the arguments of the check command
CheckArgs ==
    [update_lib |-> FALSE, custom_version |-> None, refresh |-> FALSE,
     keep_local_changes |-> FALSE, skip_post_update |-> FALSE,
     build |-> FALSE, no_upload |-> FALSE]

Init ==
    /\ current_version = <<>>
    /\ version_list = <<>>
    /\ latest = Unset
    /\ old_identifier \in {id \in Identifiers :
                               id.value \in {GitUrlA, ArchiveUrlA}}
    /\ new_identifier = old_identifier
    /\ alternative_new_ver = None
    /\ updater_cls = UpdaterClassOf(old_identifier)
    /\ repo \in Repos
    /\ remotes \in RemoteConfigs
    /\ pc = "idle"
    /\ caller = "none"
    /\ current_remote_url = None
    /\ fetched_from = None
    /\ setup_done = FALSE
    /\ op_result = "none"
    /\ status_output = NoStatus
    /\ args = CheckArgs
    /\ passed_identifier = old_identifier
    /\ third_party_version = <<>>
    /\ merged = None
    /\ steps = <<>>
    /\ GitHarnessIdle

\* the command ends with an exception
Raise(err) ==
    /\ pc' = "idle"
    /\ op_result' = err

\* validate or check builds the updater and enters setup_remote:
\* list_remotes, the scan, the android remote test
SetupRemoteList(c) ==
    /\ pc = "idle"
    /\ c = "check" => updater_cls = "GitUpdater"
    /\ caller' = c
    /\ new_identifier' = old_identifier
    /\ alternative_new_ver' = None
    /\ status_output' = NoStatus
    /\ \E git_ok \in BOOLEAN :
          IF ~git_ok
          THEN Raise("CalledProcessError") /\ UNCHANGED current_remote_url
          ELSE IF updater_cls = "GitUpdater" /\ ~ScanAndroidRemote(remotes)
          THEN Raise(AndroidRemoteError) /\ UNCHANGED current_remote_url
          ELSE /\ current_remote_url' = ScanCurrentRemoteUrl(remotes)
               /\ pc' = SetupRemoteStep(ScanCurrentRemoteUrl(remotes),
                                        UpstreamUrl)
               /\ op_result' = "none"
    /\ UNCHANGED <<remotes, old_identifier, updater_cls, repo, fetched_from,
                   setup_done>>
    /\ merged' = None
    /\ steps' = <<>>
    /\ UNCHANGED <<args, passed_identifier, third_party_version>>
    /\ UNCHANGED version_vars
    /\ UNCHANGED git_harness_vars

\* git remote remove update_origin
RemoveRemote ==
    /\ pc = "sr_remove"
    /\ \E git_ok \in BOOLEAN :
          IF ~git_ok
          THEN Raise("CalledProcessError")
               /\ UNCHANGED <<remotes, current_remote_url>>
          ELSE /\ remotes' = [remotes EXCEPT ![UPSTREAM_REMOTE_NAME] = None]
               /\ current_remote_url' = None
               /\ pc' = SetupRemoteStep(None, UpstreamUrl)
               /\ UNCHANGED op_result
    /\ UNCHANGED <<old_identifier, new_identifier, alternative_new_ver,
                   updater_cls, repo, caller, fetched_from, setup_done,
                   status_output>>
    /\ UNCHANGED update_vars
    /\ UNCHANGED version_vars
    /\ UNCHANGED git_harness_vars

\* git remote add update_origin <url>; git refuses a name that exists
AddRemote ==
    /\ pc = "sr_add"
    /\ \E git_ok \in BOOLEAN :
          IF ~git_ok \/ remotes[UPSTREAM_REMOTE_NAME] # None
          THEN Raise("CalledProcessError") /\ UNCHANGED remotes
          ELSE /\ remotes' = [remotes EXCEPT
                                 ![UPSTREAM_REMOTE_NAME] = UpstreamUrl]
               /\ pc' = "sr_fetch"
               /\ UNCHANGED op_result
    /\ UNCHANGED <<old_identifier, new_identifier, alternative_new_ver,
                   updater_cls, repo, caller, current_remote_url,
                   fetched_from, setup_done, status_output>>
    /\ UNCHANGED update_vars
    /\ UNCHANGED version_vars
    /\ UNCHANGED git_harness_vars

\* git fetch --tags update_origin; setup_remote returns
Fetch ==
    /\ pc = "sr_fetch"
    /\ \E git_ok \in BOOLEAN :
          IF ~git_ok \/ remotes[UPSTREAM_REMOTE_NAME] = None
          THEN Raise("CalledProcessError")
               /\ UNCHANGED <<fetched_from, setup_done>>
          ELSE /\ fetched_from' = remotes[UPSTREAM_REMOTE_NAME]
               /\ setup_done' = TRUE
               /\ pc' = IF caller = "check" THEN "check_body" ELSE "idle"
               /\ op_result' = IF caller = "check" THEN "none" ELSE "ok"
    /\ UNCHANGED <<remotes, old_identifier, new_identifier,
                   alternative_new_ver, updater_cls, repo, caller,
                   current_remote_url, status_output>>
    /\ UNCHANGED update_vars
    /\ UNCHANGED version_vars
    /\ UNCHANGED git_harness_vars

\* GitUpdater.check after setup_remote
CheckBody ==
    /\ pc = "check_body"
    /\ \E git_ok \in BOOLEAN :
          IF ~git_ok
          THEN Raise("CalledProcessError")
               /\ UNCHANGED <<new_identifier, alternative_new_ver, steps>>
          ELSE LET res == GitCheck(repo, old_identifier.version) IN
               /\ new_identifier' = WithVersion(new_identifier, res.version)
               /\ alternative_new_ver' = res.alt
               /\ IF res.result = "ok"
                  THEN /\ pc' = "print_status"
                       /\ steps' = Append(steps, "check")
                       /\ UNCHANGED op_result
                  ELSE Raise(res.result) /\ UNCHANGED steps
    /\ UNCHANGED <<remotes, old_identifier, updater_cls, repo, caller,
                   current_remote_url, fetched_from, setup_done,
                   status_output>>
    /\ UNCHANGED <<args, passed_identifier, third_party_version, merged>>
    /\ UNCHANGED version_vars
    /\ UNCHANGED git_harness_vars

\* check_and_update after updater.check(): print_project_status; the check
\* command returns, the update command goes on
PrintProjectStatus ==
    /\ pc = "print_status"
    /\ status_output' = print_project_status(old_identifier.version,
                                             new_identifier.version,
                                             alternative_new_ver)
    /\ pc' = IF args.update_lib THEN "choose_version" ELSE "idle"
    /\ op_result' = IF args.update_lib THEN op_result ELSE "ok"
    /\ UNCHANGED <<remotes, old_identifier, new_identifier,
                   alternative_new_ver, updater_cls, repo, caller,
                   current_remote_url, fetched_from, setup_done>>
    /\ UNCHANGED update_vars
    /\ UNCHANGED version_vars
    /\ UNCHANGED git_harness_vars

\* a later run finds another url in the project's METADATA
NewRun ==
    /\ pc = "idle"
    /\ \E id \in Identifiers :
          /\ id.type = old_identifier.type
          /\ id.version = old_identifier.version
          /\ id.value # old_identifier.value
          /\ old_identifier' = id
          /\ new_identifier' = id
    /\ alternative_new_ver' = None
    /\ caller' = "none"
    /\ current_remote_url' = None
    /\ setup_done' = FALSE
    /\ op_result' = "none"
    /\ status_output' = NoStatus
    /\ UNCHANGED <<remotes, updater_cls, repo, pc, fetched_from>>
    /\ passed_identifier' = old_identifier'
    /\ UNCHANGED <<args, third_party_version, merged, steps>>
    /\ UNCHANGED version_vars
    /\ UNCHANGED git_harness_vars

Next ==
    \/ \E c \in {"validate", "check"} : SetupRemoteList(c)
    \/ RemoveRemote
    \/ AddRemote
    \/ Fetch
    \/ CheckBody
    \/ PrintProjectStatus
    \/ NewRun

Spec == Init /\ [][Next]_vars

(***************************************************************************)
(* Claims about setup_remote and GitUpdater.check                          *)
(***************************************************************************)
UpstreamRemote == remotes[UPSTREAM_REMOTE_NAME]

\* C1: when setup_remote has completed, update_origin points at the
\* configured upstream url; a remote that pointed elsewhere is replaced by a
\* remove step followed by an add step, never repointed in one step; the
\* fetch happens only once the remote points at the url.
C1_RemoteReplacedNotRepointed ==
    /\ [](setup_done => (UpstreamRemote = UpstreamUrl
                         /\ fetched_from = UpstreamUrl))
    /\ [](pc = "sr_fetch" => UpstreamRemote = UpstreamUrl)
    /\ [][UpstreamRemote' # UpstreamRemote =>
              (UpstreamRemote = None \/ UpstreamRemote' = None)]_vars
    /\ [][(pc = "sr_remove" /\ UpstreamRemote' # UpstreamRemote) =>
              (UpstreamRemote' = None /\ pc' = "sr_add")]_vars
    /\ [][(pc = "sr_add" /\ UpstreamRemote' # UpstreamRemote) =>
              (UpstreamRemote' = UpstreamUrl /\ pc' = "sr_fetch")]_vars

\* C1 happens: update_origin had been fetched from another url, was removed
\* and added again in this call, and the fetch is about to run
C1_Witness ==
    /\ pc = "sr_fetch"
    /\ current_remote_url = None
    /\ UpstreamRemote = UpstreamUrl
    /\ fetched_from \notin {None, UpstreamUrl}

\* C2: once setup_remote has succeeded for a url, a further setup_remote
\* with the same url issues no remove and no add and leaves the remote
\* configuration as it was.
C2_SetupRemoteIdempotent ==
    [][setup_done => (remotes' = remotes
                      /\ pc' \notin {"sr_remove", "sr_add"})]_vars

\* C2 happens: a further call has gone straight to the fetch
C2_Witness == setup_done /\ pc = "sr_fetch"

\* updater.check() has returned normally
CheckReturned ==
    /\ caller = "check"
    /\ pc = "print_status" \/ (pc = "idle" /\ op_result = "ok")

\* check_and_update has ended without a failing git command
CheckFinished ==
    /\ caller = "check"
    /\ pc = "idle"
    /\ op_result \in {"ok", NoTagsError}

\* commit a is an ancestor of commit b and is not b
StrictAncestor(a, b) == a # b /\ Reaches(repo, a, b)

CurrentCommit == ResolveRef(repo, old_identifier.version)

\* the candidate of the other tracking discipline
OtherDisciplineCandidate ==
    IF is_commit(old_identifier.version)
    THEN latest_tag_of_upstream(repo, old_identifier.version)
    ELSE Sha(repo.head)

\* C3: after a successful check, an alternative version that is set is the
\* candidate of the other tracking discipline, the current version is a
\* strict ancestor of it, and it differs from the new version; when the
\* ancestry test says no, the alternative stays None.
C3_AlternativeStrictlyNewer ==
    CheckReturned =>
        /\ alternative_new_ver # None =>
              /\ alternative_new_ver = OtherDisciplineCandidate
              /\ StrictAncestor(CurrentCommit,
                                ResolveRef(repo, alternative_new_ver))
              /\ alternative_new_ver # new_identifier.version
        /\ ~StrictAncestor(CurrentCommit,
                           ResolveRef(repo, OtherDisciplineCandidate))
              => alternative_new_ver = None

\* C4: tracking a commit, check sets the new version to the head of the
\* upstream default branch, and the alternative to the latest stable tag
\* exactly when there is one and the current commit is a strict ancestor of
\* it.
C4_CommitTracking ==
    (CheckReturned /\ is_commit(old_identifier.version)) =>
        /\ new_identifier.version = Sha(repo.head)
        /\ alternative_new_ver # None <=>
              /\ OtherDisciplineCandidate # None
              /\ StrictAncestor(CurrentCommit,
                                ResolveRef(repo, OtherDisciplineCandidate))
        /\ alternative_new_ver # None =>
              alternative_new_ver = OtherDisciplineCandidate

\* C5: tracking a tag while upstream has no tags, check never returns
\* normally and never reports a status; it ends in a raised error.
C5_NoTagsRaises ==
    (/\ caller = "check"
     /\ ~is_commit(old_identifier.version)
     /\ Len(list_remote_tags(repo)) = 0)
        => /\ pc # "print_status"
           /\ op_result # "ok"
           /\ status_output = NoStatus
           /\ pc = "idle" =>
                  op_result \in {NoTagsError, "CalledProcessError",
                                 AndroidRemoteError}

\* C5 happens: the check of a tag-tracking project without upstream tags
\* ended in the error about the missing tags
C5_Witness ==
    /\ caller = "check"
    /\ ~is_commit(old_identifier.version)
    /\ Len(list_remote_tags(repo)) = 0
    /\ pc = "idle"
    /\ op_result = NoTagsError

\* stable upstream tags other than the current version that the default
\* branch contains
EligibleTags ==
    {t \in TagNames :
        /\ repo.tags[t] # 0
        /\ ~IsUnstable(t)
        /\ t # old_identifier.version
        /\ Reaches(repo, repo.tags[t], repo.head)}

\* C6: tracking a tag, when the tag search has no eligible candidate the new
\* version is cleared and the status reports 'Not available', not
\* 'Up to date'.
C6_NoCandidateNotAvailable ==
    (/\ CheckFinished
     /\ ~is_commit(old_identifier.version)
     /\ EligibleTags = {})
        => /\ new_identifier.version = <<>>
           /\ status_output.latest = NotAvailable
           /\ status_output.verdict # "Up to date."

(***************************************************************************)
(* Harness for get_latest_version: the arguments are drawn in the initial  *)
(* state, the action applies the function once.                            *)
(***************************************************************************)
\* "1.0" "1.1" "v1.1" "1.10" "1.2" "1.3" "1.9" "1-0" "foo" "2.0.0"
VersionPool ==
    { <<"1", ".", "0">>, <<"1", ".", "1">>, <<"v", "1", ".", "1">>,
      <<"1", ".", "1", "0">>, <<"1", ".", "2">>, <<"1", ".", "3">>,
      <<"1", ".", "9">>, <<"1", "-", "0">>, <<"f", "o", "o">>,
      <<"2", ".", "0", ".", "0">> }

\* the updater of the project is not running while the function is examined
UpdaterIdle ==
    /\ remotes = [n \in {"update_origin"} |-> None]
    /\ old_identifier = [type |-> "Git", value |-> None, version |-> <<>>]
    /\ new_identifier = old_identifier
    /\ alternative_new_ver = None
    /\ updater_cls = "GitUpdater"
    /\ repo = [parent |-> <<0>>, head |-> 1, tags |-> <<>>]
    /\ pc = "idle"
    /\ caller = "none"
    /\ current_remote_url = None
    /\ fetched_from = None
    /\ setup_done = FALSE
    /\ op_result = "none"
    /\ status_output = NoStatus
    /\ args = CheckArgs
    /\ passed_identifier = old_identifier
    /\ third_party_version = <<>>
    /\ merged = None
    /\ steps = <<>>

InitVersion ==
    /\ current_version \in VersionPool
    /\ version_list \in
           UNION {[1..n -> VersionPool] : n \in 0..MaxCandidates}
    /\ latest = Unset
    /\ UpdaterIdle
    /\ GitHarnessIdle

\* one call get_latest_version(current_version, version_list)
GetLatestVersion ==
    /\ latest = Unset
    /\ latest' = get_latest_version(current_version, version_list)
    /\ UNCHANGED <<current_version, version_list>>
    /\ UNCHANGED updater_vars
    /\ UNCHANGED git_harness_vars

NextVersion == GetLatestVersion

SpecVersion == InitVersion /\ [][NextVersion]_vars

(***************************************************************************)
(* Vocabulary of the claims about the selection                            *)
(***************************************************************************)
Returned == latest.status = "ok"

Candidates == {version_list[i] : i \in 1..Len(version_list)}

Parseable(v) == _parse_version(v).ok

SamePrefixSuffix(v, w) ==
    /\ Parseable(v) /\ Parseable(w)
    /\ _parse_version(v).prefix = _parse_version(w).prefix
    /\ _parse_version(v).suffix = _parse_version(w).suffix

SegmentsOf(v) == _parse_version(v).version

\* a is before b in the lexicographic order of integer tuples
TupleBefore(a, b) ==
    \E k \in 1..(Len(b)) :
        /\ \A j \in 1..(k - 1) : j <= Len(a) /\ a[j] = b[j]
        /\ \/ k = Len(a) + 1
           \/ k <= Len(a) /\ a[k] < b[k]

\* v and w agree on prefix, suffix and number of segments
ShapeCompatible(v, w) ==
    /\ SamePrefixSuffix(v, w)
    /\ Len(SegmentsOf(v)) = Len(SegmentsOf(w))

\* the ranking key of candidate v is strictly above the key of the current
\* version itself, which is [True, True, segments of current]
KeyAboveCurrent(v) ==
    /\ ShapeCompatible(v, current_version)
    /\ TupleBefore(SegmentsOf(current_version), SegmentsOf(v))

\* C7: the returned version has the prefix and the suffix of the current
\* version; a candidate of another prefix or suffix, or without digits, is
\* never returned.
C7_ReturnedHasCurrentShape ==
    Returned => SamePrefixSuffix(latest.value, current_version)

\* C8: when no candidate ranks strictly above the current version, the
\* current version string itself is returned.
C8_TieReturnsCurrent ==
    (Returned /\ \A v \in Candidates : ~KeyAboveCurrent(v))
        => latest.value = current_version

\* C9: for a non-empty candidate list, if no candidate with the prefix and
\* suffix of the current version has a greater segment tuple, the current
\* version name is returned (no regression to an older version).
C9_NeverRegresses ==
    (/\ Returned
     /\ Len(version_list) > 0
     /\ \A v \in Candidates :
            ~(/\ SamePrefixSuffix(v, current_version)
              /\ TupleBefore(SegmentsOf(current_version), SegmentsOf(v))))
        => latest.value = current_version

\* C10: segments are compared as integers: when some candidate has the
\* prefix, suffix and segment count of the current version, the returned one
\* is such a candidate and no such candidate has a greater integer tuple;
\* current 1.10 with candidates [1.10, 1.2] gives 1.10, and 1.9 ranks below
\* 1.10.
C10_IntegerSegments ==
    Returned =>
        /\ (\E v \in Candidates : ShapeCompatible(v, current_version)) =>
              /\ ShapeCompatible(latest.value, current_version)
              /\ \A v \in Candidates :
                     ShapeCompatible(v, current_version) =>
                         ~TupleBefore(SegmentsOf(latest.value), SegmentsOf(v))
        /\ (/\ current_version = <<"1", ".", "1", "0">>
            /\ version_list \in
                   { << <<"1", ".", "1", "0">>, <<"1", ".", "2">> >>,
                     << <<"1", ".", "9">>, <<"1", ".", "1", "0">> >> })
               => latest.value = <<"1", ".", "1", "0">>

\* C10 happens: 1.10 was chosen over 1.2
C10_Witness ==
    /\ Returned
    /\ current_version = <<"1", ".", "1", "0">>
    /\ version_list = << <<"1", ".", "1", "0">>, <<"1", ".", "2">> >>
    /\ latest.value = <<"1", ".", "1", "0">>

\* the candidates with the prefix and the suffix of the current version
Matching == {v \in Candidates : SamePrefixSuffix(v, current_version)}

\* C11: among the candidates with the prefix and suffix of the current
\* version, one with the segment count of the current version outranks every
\* one with another segment count, whatever the numbers: if such a candidate
\* exists the returned version has the current segment count; segment tuples
\* decide only among candidates that agree on the count (with no candidate
\* of the current count, the greatest tuple of the others is returned);
\* current 1.2 with candidates [1.3, 2.0.0] gives 1.3.
C11_SameLengthOutranks ==
    (Returned /\ Matching # {}) =>
        /\ latest.value \in Matching
        /\ (\E v \in Matching : ShapeCompatible(v, current_version))
               => Len(SegmentsOf(latest.value))
                      = Len(SegmentsOf(current_version))
        /\ \A v \in Matching :
               (ShapeCompatible(v, current_version)
                    <=> ShapeCompatible(latest.value, current_version))
                   => ~TupleBefore(SegmentsOf(latest.value), SegmentsOf(v))
        /\ (/\ current_version = <<"1", ".", "2">>
            /\ version_list = << <<"1", ".", "3">>,
                                 <<"2", ".", "0", ".", "0">> >>)
               => latest.value = <<"1", ".", "3">>

\* C11 happens: 1.3 was chosen over 2.0.0 for the current version 1.2
C11_Witness ==
    /\ Returned
    /\ current_version = <<"1", ".", "2">>
    /\ version_list = << <<"1", ".", "3">>, <<"2", ".", "0", ".", "0">> >>
    /\ latest.value = <<"1", ".", "3">>

(***************************************************************************)
(* Harness for get_most_recent_tag: the repository and the branch are      *)
(* drawn in the initial state, the action applies the function once.       *)
(***************************************************************************)
\* get_latest_version is not under examination
VersionIdle ==
    /\ current_version = <<>>
    /\ version_list = <<>>
    /\ latest = Unset

\* histories as in Repos, with at most MaxTags tags out of DescribeTagPool
DescribeRepos ==
    {[parent |-> p, head |-> h, tags |-> t] :
        p \in {q \in [Commits -> 0..NumCommits] :
                   /\ q[1] = 0
                   /\ \A c \in Commits \ {1} : q[c] \in 1..(c - 1)},
        h \in Commits,
        t \in {f \in [DescribeTagPool -> 0..NumCommits] :
                   Cardinality({n \in DescribeTagPool : f[n] # 0})
                       <= MaxTags}}

InitDescribe ==
    /\ describe_repo \in DescribeRepos
    /\ describe_branch \in {"main", "nosuch"}
    /\ describe_out = DescribeUnset
    /\ describe_run = NoRun
    /\ VersionIdle
    /\ UpdaterIdle
    /\ UtilIdle
    /\ AncestorIdle
    /\ MergeIdle
    /\ BatchIdle

\* one call get_most_recent_tag(proj_path, describe_branch); git itself may
\* fail for a reason of its own
GetMostRecentTag ==
    /\ describe_out = DescribeUnset
    /\ \E git_ok \in BOOLEAN :
          \E run \in IF git_ok
                      THEN GitDescribe(describe_repo, describe_branch,
                                       UNWANTED_TAGS)
                      ELSE {[returncode |-> 128, stdout |-> <<>>,
                             stderr |-> <<"fatal: not a git repository">>]} :
              /\ describe_run' = run
              /\ describe_out' = MostRecentTagOf(run)
    /\ UNCHANGED <<describe_repo, describe_branch>>
    /\ UNCHANGED version_vars
    /\ UNCHANGED updater_vars
    /\ UNCHANGED util_vars
    /\ UNCHANGED ancestor_vars
    /\ UNCHANGED merge_vars
    /\ UNCHANGED batch_vars

NextDescribe == GetMostRecentTag

SpecDescribe == InitDescribe /\ [][NextDescribe]_vars

\* C12: a tag whose name has an alpha, beta, rc or test marker in any letter
\* case is never returned as the most recent tag.
C12_NoUnstableTagReturned ==
    (describe_out.status = "ok" /\ describe_out.value # None)
        => ~IsUnstable(describe_out.value)

(***************************************************************************)
(* Harness for is_ancestor: the repository and the two refs are drawn in   *)
(* the initial state; one action calls is_ancestor(ancestor, child), the   *)
(* other is_ancestor(child, ancestor).                                     *)
(***************************************************************************)
\* refs handed to is_ancestor: commit hashes, tag names, the branch name and
\* a name git does not know
RefPool ==
    {Sha(c) : c \in Commits} \cup TagNames \cup {BranchName, <<"not-a-ref">>}

InitAncestor ==
    /\ anc_repo \in Repos
    /\ anc_ancestor \in RefPool
    /\ anc_child \in RefPool
    /\ anc_out = "unset"
    /\ anc_rev = "unset"
    /\ VersionIdle
    /\ UpdaterIdle
    /\ UtilIdle
    /\ DescribeIdle
    /\ MergeIdle
    /\ BatchIdle

\* one call is_ancestor(proj_path, anc_ancestor, anc_child); git itself may
\* fail for a reason of its own
IsAncestor ==
    /\ anc_out = "unset"
    /\ \E git_ok \in BOOLEAN :
          anc_out' = IF git_ok
                     THEN is_ancestor(anc_repo, anc_ancestor, anc_child)
                     ELSE "CalledProcessError"
    /\ UNCHANGED <<anc_repo, anc_ancestor, anc_child, anc_rev>>
    /\ UNCHANGED version_vars
    /\ UNCHANGED updater_vars
    /\ UNCHANGED util_vars
    /\ UNCHANGED describe_vars
    /\ UNCHANGED merge_vars
    /\ UNCHANGED batch_vars

\* one call is_ancestor(proj_path, anc_child, anc_ancestor)
IsAncestorReversed ==
    /\ anc_rev = "unset"
    /\ \E git_ok \in BOOLEAN :
          anc_rev' = IF git_ok
                     THEN is_ancestor(anc_repo, anc_child, anc_ancestor)
                     ELSE "CalledProcessError"
    /\ UNCHANGED <<anc_repo, anc_ancestor, anc_child, anc_out>>
    /\ UNCHANGED version_vars
    /\ UNCHANGED updater_vars
    /\ UNCHANGED util_vars
    /\ UNCHANGED describe_vars
    /\ UNCHANGED merge_vars
    /\ UNCHANGED batch_vars

NextAncestor == IsAncestor \/ IsAncestorReversed

SpecAncestor == InitAncestor /\ [][NextAncestor]_vars

\* the commits the two arguments name, 0 for a name git does not know
AncestorCommit == ResolveRef(anc_repo, anc_ancestor)

ChildCommit == ResolveRef(anc_repo, anc_child)

\* C13: is_ancestor never answers True when the two arguments resolve to the
\* same commit, whatever form (hash, tag name, branch name) they have.
C13_SameCommitIsFalse ==
    (AncestorCommit # 0 /\ AncestorCommit = ChildCommit)
        => anc_out # "True"

\* C14: for two distinct commits of which the first precedes the second in
\* the history, is_ancestor(first, second) is True and is_ancestor(second,
\* first) is False whenever they return; on commits named by their hashes
\* is_ancestor is irreflexive and asymmetric.
C14_StrictOrderOnCommits ==
    /\ (/\ AncestorCommit # 0 /\ ChildCommit # 0
        /\ AncestorCommit # ChildCommit
        /\ Reaches(anc_repo, AncestorCommit, ChildCommit))
           => /\ anc_out \in {"True", "False"} => anc_out = "True"
              /\ anc_rev \in {"True", "False"} => anc_rev = "False"
    /\ (is_commit(anc_ancestor) /\ is_commit(anc_child))
           => /\ anc_ancestor = anc_child => anc_out # "True"
              /\ ~(anc_out = "True" /\ anc_rev = "True")

\* C14 happens: both calls have returned for an earlier and a later commit
C14_Witness ==
    /\ is_commit(anc_ancestor) /\ is_commit(anc_child)
    /\ AncestorCommit # ChildCommit
    /\ Reaches(anc_repo, AncestorCommit, ChildCommit)
    /\ anc_out = "True"
    /\ anc_rev = "False"

\* C15: is_ancestor answers False only when both refs resolve and the first
\* is not an ancestor of the second or both are the same commit; when a ref
\* cannot be resolved the call raises and answers neither True nor False.
C15_ErrorsAreRaised ==
    /\ anc_out = "False" =>
           /\ AncestorCommit # 0 /\ ChildCommit # 0
           /\ \/ AncestorCommit = ChildCommit
              \/ ~Reaches(anc_repo, AncestorCommit, ChildCommit)
    /\ (AncestorCommit = 0 \/ ChildCommit = 0)
           => anc_out \in {"unset", "CalledProcessError"}

\* C15 happens: the call with two unknown refs has raised
C15_Witness ==
    /\ anc_ancestor = <<"not-a-ref">>
    /\ anc_child = <<"not-a-ref">>
    /\ anc_out = "CalledProcessError"

(***************************************************************************)
(* Harness for merge: the tree and the branch are drawn in the initial     *)
(* state, the action applies merge once.                                   *)
(***************************************************************************)
\* trees merge can find: clean, stopped before the commit of an earlier
\* merge, or with the conflicts of an earlier merge
MergeTrees ==
    {[commits |-> n, head |-> "local", unmerged |-> u, merge_head |-> m] :
        n \in 1..NumCommits, u \in SUBSET Files, m \in BOOLEAN}
    \ {t \in [commits : 1..NumCommits, head : {"local"},
               unmerged : SUBSET Files, merge_head : BOOLEAN] :
           t.unmerged # {} /\ ~t.merge_head}

MergeBranches ==
    {"unknown", "up_to_date", "fast_forward", "diverged_clean",
     "diverged_conflicting"}

InitMerge ==
    /\ merge_tree \in MergeTrees
    /\ merge_branch \in MergeBranches
    /\ merge_out = MergeUnset
    /\ VersionIdle
    /\ UpdaterIdle
    /\ UtilIdle
    /\ DescribeIdle
    /\ AncestorIdle
    /\ BatchIdle

\* one call merge(proj_path, merge_branch); ls-files may fail for a reason of
\* its own
Merge ==
    /\ merge_out = MergeUnset
    /\ \E conflicts \in SUBSET Files \ {{}}, ls_files_ok \in BOOLEAN :
          merge_out' = merge(merge_tree, merge_branch, conflicts, ls_files_ok)
    /\ UNCHANGED <<merge_tree, merge_branch>>
    /\ UNCHANGED version_vars
    /\ UNCHANGED updater_vars
    /\ UNCHANGED util_vars
    /\ UNCHANGED describe_vars
    /\ UNCHANGED ancestor_vars
    /\ UNCHANGED batch_vars

NextMerge == Merge

SpecMerge == InitMerge /\ [][NextMerge]_vars

\* C16: merge has three outcomes: exit status 0 returns normally; a failure
\* that leaves unmerged files returns normally with the conflict in the
\* tree; a failure without unmerged files raises the failure of git merge
\* again; no outcome adds a commit to the repository.
C16_MergeOutcomes ==
    merge_out # MergeUnset =>
        /\ merge_out.returncode = 0 => merge_out.status = "returned"
        /\ (/\ merge_out.returncode # 0
            /\ merge_out.status # "CalledProcessError: git ls-files")
               => IF merge_out.tree.unmerged # {}
                  THEN merge_out.status = "returned"
                  ELSE merge_out.status = "CalledProcessError: git merge"
        /\ merge_out.tree.commits = merge_tree.commits
        /\ merge_out.tree.head # "merge_commit"

\* C16 happens: a conflicting merge has returned normally and left the
\* conflict in the tree
C16_Witness ==
    /\ merge_branch = "diverged_conflicting"
    /\ merge_out.status = "returned"
    /\ merge_out.returncode # 0
    /\ merge_out.tree.unmerged # {}
    /\ merge_tree.unmerged = {}

(***************************************************************************)
(* The batch run check_and_update_path: one action per iteration of the    *)
(* loop over the paths.                                                    *)
(***************************************************************************)
\* number of paths of a batch at most
MaxPaths == 3

\* absolute project paths, as resolve_command_line_paths yields them: two
\* projects of this tree and one of another tree
PathPool ==
    {ExternalPath \o <<"/foo">>, ExternalPath \o <<"/bar">>,
     <<"/ndk", "/rr">>}

InitBatch ==
    /\ batch_paths \in UNION {[1..n -> PathPool] : n \in 0..MaxPaths}
    /\ external_exists \in BOOLEAN
    /\ batch_done = 0
    /\ results = {}
    /\ batch_out = "running"
    /\ VersionIdle
    /\ UpdaterIdle
    /\ UtilIdle
    /\ DescribeIdle
    /\ AncestorIdle
    /\ MergeIdle

\* one iteration: check_and_update(args, path, update_lib), the entry for
\* its outcome, results[str(canonicalize_project_path(path))] = res
CheckAndUpdatePath ==
    /\ batch_out = "running"
    /\ batch_done < Len(batch_paths)
    /\ \E project_fails \in BOOLEAN :
          LET path    == batch_paths[batch_done + 1]
              updater == check_and_update(path, external_exists,
                                          project_fails)
              key     == canonicalize_project_path(path, external_exists) IN
          IF key = <<"RuntimeError">>
          THEN /\ batch_out' = "RuntimeError"
               /\ UNCHANGED <<results, batch_done>>
          ELSE /\ results' = {e \in results : e[1] # key}
                                 \cup {<<key, ResultEntry(updater)>>}
               /\ batch_done' = batch_done + 1
               /\ UNCHANGED batch_out
    /\ UNCHANGED <<batch_paths, external_exists>>
    /\ UNCHANGED version_vars
    /\ UNCHANGED updater_vars
    /\ UNCHANGED util_vars
    /\ UNCHANGED <<describe_vars, ancestor_vars, merge_vars>>

\* the loop is over: return results
ReturnResults ==
    /\ batch_out = "running"
    /\ batch_done = Len(batch_paths)
    /\ batch_out' = "returned"
    /\ UNCHANGED <<batch_paths, external_exists, batch_done, results>>
    /\ UNCHANGED version_vars
    /\ UNCHANGED updater_vars
    /\ UNCHANGED util_vars
    /\ UNCHANGED <<describe_vars, ancestor_vars, merge_vars>>

NextBatch == CheckAndUpdatePath \/ ReturnResults

SpecBatch == InitBatch /\ [][NextBatch]_vars

\* C17: a batch run ends by returning the results, with every path of the
\* list processed; the failure of one project, canonicalizing its path
\* included, is that project's 'error' entry and stops no later project.
C17_EveryPathProcessed ==
    batch_out # "running" =>
        /\ batch_out = "returned"
        /\ batch_done = Len(batch_paths)
        /\ \A i \in 1..Len(batch_paths) :
               \E e \in results :
                   canonicalize_project_path(batch_paths[i], external_exists)
                       \in {e[1], <<"RuntimeError">>}

(***************************************************************************)
(* The update command: Updater.__init__, check, the choice of the version  *)
(* (set_custom_version, refresh_without_upgrading, set_new_version) and    *)
(* _do_update.                                                             *)
(***************************************************************************)
\* the version given by old_ver replaces the version of the identifier
ConstructedIdentifier_OldVerWins(identifier, ver) ==
    [identifier EXCEPT !.version = ver]

\* Updater.__init__: the caller's identifier object becomes _old_identifier,
\* and its version, when empty, is filled with old_ver
ConstructedIdentifier(identifier, ver) ==
    [identifier EXCEPT !.version = IF Len(identifier.version) # 0
                                   THEN identifier.version ELSE ver]

\* Updater.set_custom_version: the new identifier, or the error raised
set_custom_version(r, old_id, new_id, custom_version) ==
    LET anc == is_ancestor(r, old_id.version, custom_version) IN
    IF anc = "True"
    THEN [result |-> "ok", identifier |-> WithVersion(new_id, custom_version)]
    ELSE IF anc = "False"
    THEN [result |-> "RuntimeError: Cannot upgrade", identifier |-> new_id]
    ELSE [result |-> "CalledProcessError", identifier |-> new_id]

\* Updater.refresh_without_upgrading
refresh_without_upgrading(old_id, new_id) ==
    [new_id EXCEPT !.version = old_id.version, !.value = old_id.value]

\* Updater.set_new_version
set_new_version(new_id, version) == WithVersion(new_id, version)

\* what the user types at the question of use_alternative_version
Answers ==
    { <<"y", "e", "s">>, <<"Y">>, <<>>, <<"n", "o">>, <<"N", "o">>,
      <<"n">>, <<"m", "a", "y", "b", "e">> }

\* str.lower on the letters of the answers
LowerAnswer(text) ==
    [i \in 1..Len(text) |->
        CASE text[i] = "Y" -> "y" [] text[i] = "N" -> "n" [] OTHER -> text[i]]

\* a.startswith(b)
startswith(a, b) == Len(b) <= Len(a) /\ SubSeq(a, 1, Len(b)) = b

\* use_alternative_version: "True", "False" or the ValueError raised
use_alternative_version(answer) ==
    IF startswith(<<"y", "e", "s">>, LowerAnswer(answer)) THEN "True"
    ELSE IF startswith(LowerAnswer(answer), <<"n", "o">>) THEN "False"
    ELSE "ValueError"

\* Updater.__init__ called by create_updater
BuildUpdater ==
    /\ pc = "build"
    /\ old_identifier' =
           ConstructedIdentifier(old_identifier, third_party_version)
    /\ new_identifier' = old_identifier'
    /\ alternative_new_ver' = None
    /\ pc' = "idle"
    /\ UNCHANGED <<remotes, updater_cls, repo, caller, current_remote_url,
                   fetched_from, setup_done, op_result, status_output>>
    /\ UNCHANGED update_vars
    /\ UNCHANGED version_vars
    /\ UNCHANGED git_harness_vars

\* check_and_update with update_lib, after the status report: the version
\* to upgrade to
ChooseVersion ==
    /\ pc = "choose_version"
    /\ IF args.custom_version # None
       THEN \E git_ok \in BOOLEAN :
                LET res == IF git_ok
                           THEN set_custom_version(repo, old_identifier,
                                    new_identifier, args.custom_version)
                           ELSE [result |-> "CalledProcessError",
                                 identifier |-> new_identifier] IN
                /\ new_identifier' = res.identifier
                /\ IF res.result = "ok"
                   THEN pc' = "do_update" /\ UNCHANGED op_result
                   ELSE Raise(res.result)
       ELSE IF args.refresh
       THEN /\ new_identifier' =
                   refresh_without_upgrading(old_identifier, new_identifier)
            /\ pc' = "do_update"
            /\ UNCHANGED op_result
       ELSE IF has_new_version(old_identifier.version, new_identifier.version)
       THEN IF alternative_new_ver # None
            THEN \E answer \in Answers :
                     IF use_alternative_version(answer) = "ValueError"
                     THEN Raise("ValueError") /\ UNCHANGED new_identifier
                     ELSE /\ new_identifier' =
                                 IF use_alternative_version(answer) = "True"
                                 THEN set_new_version(new_identifier,
                                                      alternative_new_ver)
                                 ELSE new_identifier
                          /\ pc' = "do_update"
                          /\ UNCHANGED op_result
            ELSE /\ pc' = "do_update"
                 /\ UNCHANGED <<new_identifier, op_result>>
       ELSE /\ pc' = "idle"
            /\ op_result' = "ok"
            /\ UNCHANGED new_identifier
    /\ UNCHANGED <<remotes, old_identifier, alternative_new_ver, updater_cls,
                   repo, caller, current_remote_url, fetched_from, setup_done,
                   status_output>>
    /\ UNCHANGED update_vars
    /\ UNCHANGED version_vars
    /\ UNCHANGED git_harness_vars

\* the ref of the alternative version is merged when there is one
MergeTarget_Alternative(new_id, alt) ==
    IF alt # None THEN alt ELSE new_id.version

\* GitUpdater.update: the ref handed to git_utils.merge
MergeTarget(new_id, alt) == new_id.version

\* the positions inside _do_update
DoUpdateSteps ==
    {"do_update", "update", "write_metadata", "commit", "post_update",
     "run_build", "push"}

\* where _do_update goes on after the commit resp. after the post update
AfterCommit(a) ==
    IF ~a.skip_post_update THEN "post_update"
    ELSE IF a.build THEN "run_build" ELSE "push"

AfterPostUpdate(a) == IF a.build THEN "run_build" ELSE "push"

\* the exception is raised again without updater.rollback()
RollbackAndRaise_NoRollback(err) ==
    /\ UNCHANGED steps
    /\ Raise(err)

\* the handler of the try block of _do_update: updater.rollback(), then the
\* exception is raised again
RollbackAndRaise(err) ==
    /\ steps' = Append(steps, "rollback")
    /\ Raise(err)

\* what no step of _do_update changes
DoUpdateFrame ==
    /\ UNCHANGED <<remotes, old_identifier, new_identifier,
                   alternative_new_ver, updater_cls, repo, caller,
                   current_remote_url, fetched_from, setup_done,
                   status_output, args, passed_identifier,
                   third_party_version>>
    /\ UNCHANGED version_vars
    /\ UNCHANGED git_harness_vars

\* _do_update, before the try block: unless local changes are kept, detach
\* to the android head and start the branch tmp_auto_upgrade anew
StartBranch ==
    /\ pc = "do_update"
    /\ \E git_ok \in BOOLEAN :
          IF args.keep_local_changes
          THEN pc' = "update" /\ UNCHANGED <<steps, op_result>>
          ELSE IF git_ok
          THEN /\ steps' = Append(steps, "start_branch")
               /\ pc' = "update"
               /\ UNCHANGED op_result
          ELSE Raise("CalledProcessError") /\ UNCHANGED steps
    /\ UNCHANGED merged
    /\ DoUpdateFrame

\* updater.update(): git merge of the new version; a conflict returns
\* normally (git_utils.merge), another failure raises
Update ==
    /\ pc = "update"
    /\ merged' = MergeTarget(new_identifier, alternative_new_ver)
    /\ \E merge_raises \in BOOLEAN :
          IF merge_raises
          THEN RollbackAndRaise("CalledProcessError")
          ELSE /\ steps' = Append(steps, "update")
               /\ pc' = "write_metadata"
               /\ UNCHANGED op_result
    /\ DoUpdateFrame

\* bpfmt, updater.update_metadata, fileutils.write_metadata
WriteMetadata ==
    /\ pc = "write_metadata"
    /\ \E ok \in BOOLEAN :
          IF ~ok
          THEN RollbackAndRaise("Exception")
          ELSE /\ steps' = Append(steps, "write_metadata")
               /\ pc' = "commit"
               /\ UNCHANGED op_result
    /\ UNCHANGED merged
    /\ DoUpdateFrame

\* remove_gitmodules, add_file, commit
Commit ==
    /\ pc = "commit"
    /\ \E git_ok \in BOOLEAN :
          IF ~git_ok
          THEN RollbackAndRaise("CalledProcessError")
          ELSE /\ steps' = Append(steps, "commit")
               /\ pc' = AfterCommit(args)
               /\ UNCHANGED op_result
    /\ UNCHANGED merged
    /\ DoUpdateFrame

\* run_post_update, add_file, commit_amend
PostUpdate ==
    /\ pc = "post_update"
    /\ \E ok \in BOOLEAN :
          IF ~ok
          THEN RollbackAndRaise("CalledProcessError")
          ELSE /\ steps' = Append(steps, "post_update")
               /\ pc' = AfterPostUpdate(args)
               /\ UNCHANGED op_result
    /\ UNCHANGED merged
    /\ DoUpdateFrame

\* updater_utils.build: a CalledProcessError is logged and _do_update
\* returns; any other exception goes to the handler of the try block
Build ==
    /\ pc = "run_build"
    /\ \E outcome \in {"ok", "CalledProcessError", "Exception"} :
          IF outcome = "ok"
          THEN /\ steps' = Append(steps, "build")
               /\ pc' = "push"
               /\ UNCHANGED op_result
          ELSE IF outcome = "CalledProcessError"
          THEN /\ steps' = Append(steps, "build failed")
               /\ pc' = "idle"
               /\ op_result' = "ok"
          ELSE RollbackAndRaise("Exception")
    /\ UNCHANGED merged
    /\ DoUpdateFrame

\* after the try block: git push unless no_upload; check_and_update returns
Push ==
    /\ pc = "push"
    /\ \E git_ok \in BOOLEAN :
          IF args.no_upload
          THEN pc' = "idle" /\ op_result' = "ok" /\ UNCHANGED steps
          ELSE IF git_ok
          THEN /\ steps' = Append(steps, "push")
               /\ pc' = "idle"
               /\ op_result' = "ok"
          ELSE Raise("CalledProcessError") /\ UNCHANGED steps
    /\ UNCHANGED merged
    /\ DoUpdateFrame

\* the custom versions tried: commit hashes, tag names, an unknown name
CustomVersions ==
    {Sha(c) : c \in Commits} \cup TagNames \cup {<<"not-a-ref">>}

\* the choices of keep_local_changes, skip_post_update, build (false with
\* --no-build) and no_upload tried
FlagChoices ==
    {<<FALSE, FALSE, FALSE, FALSE>>, <<TRUE, TRUE, FALSE, FALSE>>,
     <<FALSE, FALSE, TRUE, FALSE>>, <<FALSE, TRUE, TRUE, FALSE>>,
     <<FALSE, FALSE, FALSE, TRUE>>, <<FALSE, FALSE, TRUE, TRUE>>}

\* check; update with each choice of the flags; update --refresh and
\* update --custom-version with --no-build and the other flags left alone
UpdateArgs ==
    {CheckArgs, [CheckArgs EXCEPT !.update_lib = TRUE, !.refresh = TRUE]}
    \cup {[CheckArgs EXCEPT !.update_lib = TRUE,
                            !.keep_local_changes = f[1],
                            !.skip_post_update = f[2],
                            !.build = f[3], !.no_upload = f[4]] :
              f \in FlagChoices}
    \cup {[CheckArgs EXCEPT !.update_lib = TRUE, !.custom_version = v] :
              v \in CustomVersions}

\* a git project whose update_origin remote is configured already; the
\* version is in the identifier, in third_party.version, or in both
InitUpdate ==
    /\ old_identifier \in
           {[type |-> "Git", value |-> GitUrlA, version |-> v] :
               v \in OldVersions \cup {<<>>}}
    /\ passed_identifier = old_identifier
    /\ third_party_version \in {<<>>, TagOrder[1]}
    /\ new_identifier = old_identifier
    /\ alternative_new_ver = None
    /\ updater_cls = "GitUpdater"
    /\ repo \in Repos
    /\ remotes = [n \in RemoteNames |->
                     CASE n = UPSTREAM_REMOTE_NAME -> GitUrlA
                       [] n = "aosp" -> AndroidExternalUrl
                       [] OTHER -> None]
    /\ pc = "build"
    /\ caller = "none"
    /\ current_remote_url = None
    /\ fetched_from = None
    /\ setup_done = FALSE
    /\ op_result = "none"
    /\ status_output = NoStatus
    /\ args \in UpdateArgs
    /\ merged = None
    /\ steps = <<>>
    /\ VersionIdle
    /\ GitHarnessIdle

NextUpdate ==
    \/ BuildUpdater
    \/ SetupRemoteList("check")
    \/ Fetch
    \/ CheckBody
    \/ PrintProjectStatus
    \/ ChooseVersion
    \/ StartBranch
    \/ Update
    \/ WriteMetadata
    \/ Commit
    \/ PostUpdate
    \/ Build
    \/ Push

SpecUpdate == InitUpdate /\ [][NextUpdate]_vars

(***************************************************************************)
(* Claims about the update command                                         *)
(***************************************************************************)
CustomCommit == ResolveRef(repo, args.custom_version)

\* the update command was given a custom version
CustomRequested == args.update_lib /\ args.custom_version # None

\* C18: a custom version is accepted only if the current version is a strict
\* ancestor of it: then it becomes the new version; otherwise (older than or
\* equal to the current version, or without the current version in its
\* history) set_custom_version raises, the new identifier stays as it was
\* and _do_update does not run.
C18_CustomVersionStrictlyNewer ==
    /\ [](CustomRequested =>
            /\ (pc \in DoUpdateSteps \/ merged # None) =>
                   /\ StrictAncestor(CurrentCommit, CustomCommit)
                   /\ new_identifier.version = args.custom_version
            /\ ~StrictAncestor(CurrentCommit, CustomCommit) =>
                   (pc \notin DoUpdateSteps /\ merged = None))
    /\ [][(/\ CustomRequested
           /\ pc = "choose_version"
           /\ ~StrictAncestor(CurrentCommit, CustomCommit))
              => /\ new_identifier' = new_identifier
                 /\ pc' = "idle"
                 /\ op_result' \in {"RuntimeError: Cannot upgrade",
                                     "CalledProcessError"}]_vars

\* C19 as stated: the identifier the caller passed is as it was passed.
C19_CurrentIdentifierNeverMutated == old_identifier = passed_identifier

\* C19, amended: the type and the value of the caller's identifier are never
\* changed; its version is changed by the constructor only, which fills an
\* empty version with old_ver; check, set_new_version, set_custom_version
\* and refresh_without_upgrading change the new identifier only.
C19_OnlyConstructorFillsVersion ==
    /\ [](/\ old_identifier.type = passed_identifier.type
          /\ old_identifier.value = passed_identifier.value
          /\ pc # "build" =>
                 old_identifier.version =
                     IF Len(passed_identifier.version) # 0
                     THEN passed_identifier.version
                     ELSE third_party_version)
    /\ [][pc # "build" => old_identifier' = old_identifier]_vars

\* C19 happens: the constructor has filled the empty version, and a custom
\* version has been set in the new identifier
C19_Witness ==
    /\ Len(passed_identifier.version) = 0
    /\ old_identifier.version = third_party_version
    /\ Len(third_party_version) # 0
    /\ pc = "do_update"
    /\ new_identifier.version # old_identifier.version

\* C20: GitUpdater.check changes the version of the new identifier only:
\* while and after it runs, in either tracking mode, the type and the value
\* of the new identifier are those of the current identifier, which itself
\* is not changed.
C20_CheckChangesVersionOnly ==
    /\ [](caller = "check" =>
              /\ new_identifier.type = old_identifier.type
              /\ new_identifier.value = old_identifier.value)
    /\ [][pc = "check_body" =>
              /\ new_identifier'.type = new_identifier.type
              /\ new_identifier'.value = new_identifier.value
              /\ old_identifier' = old_identifier]_vars

\* C20 happens: check has returned with another version in the new
\* identifier
C20_Witness ==
    /\ CheckReturned
    /\ pc = "print_status"
    /\ new_identifier.version # old_identifier.version
    /\ new_identifier.value = old_identifier.value

\* the version check chose, as print_project_status has shown it
CheckedVersion ==
    IF status_output.latest = NotAvailable THEN <<>> ELSE status_output.latest

\* the version the workflow hands to _do_update: the custom version, the
\* current version on a refresh, else the version of check or the alternative
WorkflowVersions ==
    IF args.custom_version # None THEN {args.custom_version}
    ELSE IF args.refresh THEN {old_identifier.version}
    ELSE {CheckedVersion} \cup ({alternative_new_ver} \ {None})

\* C21: the ref that GitUpdater.update merges is the version of the new
\* identifier at the time update is called, and that version is the one
\* check chose, or the alternative, custom or refreshed version that the
\* workflow put in its place; no other ref is merged.
C21_MergedIsNewVersion ==
    /\ [](pc = "update" => new_identifier.version \in WorkflowVersions)
    /\ [](merged # None =>
              /\ merged = new_identifier.version
              /\ merged \in WorkflowVersions)
    /\ [][pc = "update" => merged' = new_identifier.version]_vars

\* C21 happens: check offered an alternative, the user declined it, and the
\* version of check has been merged
C21_Witness ==
    /\ merged # None
    /\ alternative_new_ver # None
    /\ merged # alternative_new_ver
    /\ merged = CheckedVersion
    /\ steps # <<>> /\ steps[Len(steps)] = "update"

\* the update command without --custom-version and without --refresh
PlainUpdate ==
    args.update_lib /\ args.custom_version = None /\ ~args.refresh

NoTagFailure ==
    /\ describe_run.returncode # 0
    /\ \/ InText("fatal: No names found", describe_run.stderr)
       \/ InText("fatal: No tags can describe", describe_run.stderr)

\* C23: get_most_recent_tag returns None, without raising, exactly when git
\* describe fails with "No names found" or "No tags can describe"; any
\* other failure of git describe is raised again; on success the tag that
\* git describe printed is returned.
C23_NoneOnlyForNoTag ==
    describe_out # DescribeUnset =>
        /\ (describe_out = [status |-> "ok", value |-> None]) <=> NoTagFailure
        /\ (describe_out.status = "CalledProcessError") <=>
               (describe_run.returncode # 0 /\ ~NoTagFailure)
        /\ describe_run.returncode = 0 =>
               /\ describe_out = [status |-> "ok",
                                  value |-> describe_run.stdout]
               /\ describe_run.stdout \in DOMAIN describe_repo.tags
               /\ describe_repo.tags[describe_run.stdout] # 0

\* C23 happens: the branch has commits but no tag reaches it, and None was
\* returned
C23_Witness ==
    /\ describe_out = [status |-> "ok", value |-> None]
    /\ InText("fatal: No tags can describe", describe_run.stderr)
    /\ \E t \in DOMAIN describe_repo.tags : describe_repo.tags[t] # 0

\* another failure of git describe has been raised
C23_WitnessRaised ==
    /\ describe_out.status = "CalledProcessError"
    /\ describe_run.returncode # 0

(***************************************************************************)
(* git_utils.detect_default_branch                                         *)
(***************************************************************************)

\* the characters str.split() splits at
Whitespace == {" ", "\t"}

\* sub in text, for str
Contains(text, sub) ==
    \E i \in 0..(Len(text) - Len(sub)) : SubSeq(text, i + 1, i + Len(sub)) = sub

\* line.split(): the runs of characters other than whitespace, in order
RECURSIVE split(_)
split(line) ==
    IF line = <<>> THEN <<>>
    ELSE IF Head(line) \in Whitespace THEN split(Tail(line))
    ELSE LET stops == {i \in 1..Len(line) : line[i] \in Whitespace}
             end   == IF stops = {} THEN Len(line)
                      ELSE (CHOOSE i \in stops :
                                \A j \in stops : i <= j) - 1 IN
         <<SubSeq(line, 1, end)>> \o split(SubSeq(line, end + 1, Len(line)))

HeadBranch == <<"H", "E", "A", "D", " ", "b", "r", "a", "n", "c", "h">>

\* the last line with "HEAD branch" decides
RECURSIVE detect_default_branch_LastMatch(_)
detect_default_branch_LastMatch(lines) ==
    IF lines = <<>> THEN <<"RuntimeError">>
    ELSE IF Contains(lines[Len(lines)], HeadBranch)
    THEN LET words == split(lines[Len(lines)]) IN words[Len(words)]
    ELSE detect_default_branch_LastMatch(SubSeq(lines, 1, Len(lines) - 1))

\* detect_default_branch on the lines of the output: the loop over the lines
RECURSIVE detect_default_branch(_)
detect_default_branch(lines) ==
    IF lines = <<>> THEN <<"RuntimeError">>
    ELSE IF Contains(Head(lines), HeadBranch)
    THEN LET words == split(Head(lines)) IN words[Len(words)]
    ELSE detect_default_branch(Tail(lines))

\* lines of the output of git remote show
ShowLines ==
    { <<"*", " ", "r", "e", "m", "o", "t", "e", " ", "o">>,
      <<" ", " ", "H", "E", "A", "D", " ", "b", "r", "a", "n", "c", "h", ":", " ", "m", "a", "i", "n">>,
      <<" ", " ", "H", "E", "A", "D", " ", "b", "r", "a", "n", "c", "h", ":", "\t", "d", "e", "v", " ">>,
      <<" ", " ", "H", "E", "A", "D", " ", " ", "b", "r", "a", "n", "c", "h", ":", " ", "x">>,
      <<" ", " ", "H", "E", "A", "D", " ", "b", "r", "a", "n", "c", "h", " ", "(", "a", "m", "b", "i", "g", "u", "o", "u", "s", ")", ":">>,
      <<" ", " ", "h", "e", "a", "d", " ", "b", "r", "a", "n", "c", "h", ":", " ", "m">>,
      <<" ", " ", " ", " ", "m", "a", "i", "n">> }

MaxLines == 3

InitBranch ==
    /\ remote_show \in UNION {[1..n -> ShowLines] : n \in 0..MaxLines}
    /\ branch_out = BranchUnset
    /\ VersionIdle
    /\ UpdaterIdle
    /\ DescribeIdle
    /\ AncestorIdle
    /\ MergeIdle
    /\ BatchIdle
    /\ CreateIdle
    /\ TreeIdle
    /\ AnswerIdle

\* one call detect_default_branch(proj_path, remote_name); git remote show
\* may fail, and check=True raises
DetectDefaultBranch ==
    /\ branch_out = BranchUnset
    /\ \E git_ok \in BOOLEAN :
          branch_out' = IF git_ok THEN detect_default_branch(remote_show)
                        ELSE <<"CalledProcessError">>
    /\ UNCHANGED remote_show
    /\ UNCHANGED version_vars
    /\ UNCHANGED updater_vars
    /\ UNCHANGED <<describe_vars, ancestor_vars, merge_vars, batch_vars>>
    /\ UNCHANGED <<create_vars, tree_vars, answer_vars>>

NextBranch == DetectDefaultBranch

SpecBranch == InitBranch /\ [][NextBranch]_vars

\* the lines of the output that contain "HEAD branch"
HeadBranchLines ==
    {i \in 1..Len(remote_show) : Contains(remote_show[i], HeadBranch)}

\* the characters of a line from after its last inner whitespace to its
\* last character that is not whitespace
LastToken(line) ==
    LET solid == {i \in 1..Len(line) : line[i] \notin Whitespace}
        last  == CHOOSE i \in solid : \A j \in solid : j <= i
        first == CHOOSE i \in 1..last :
                     /\ \A j \in i..last : j \in solid
                     /\ i = 1 \/ (i - 1) \notin solid IN
    SubSeq(line, first, last)

BranchErrors == {<<"RuntimeError">>, <<"CalledProcessError">>}

\* C24: detect_default_branch returns the last whitespace-separated token of
\* the first line of the output of git remote show that contains
\* "HEAD branch"; when no line contains it, an error is raised and no value
\* is returned.
C24_FirstHeadBranchLine ==
    branch_out # BranchUnset =>
        /\ HeadBranchLines = {} => branch_out \in BranchErrors
        /\ (HeadBranchLines # {} /\ branch_out # <<"CalledProcessError">>) =>
               LET first == CHOOSE i \in HeadBranchLines :
                                \A j \in HeadBranchLines : i <= j IN
               branch_out = LastToken(remote_show[first])

\* C24 happens: two lines name a HEAD branch and the first one was taken
C24_Witness ==
    /\ Cardinality(HeadBranchLines) >= 2
    /\ \E i, j \in HeadBranchLines :
           i < j /\ LastToken(remote_show[i]) # LastToken(remote_show[j])
                 /\ branch_out = LastToken(remote_show[i])

\* no line names a HEAD branch and RuntimeError was raised
C24_WitnessRaised ==
    /\ remote_show # <<>>
    /\ HeadBranchLines = {}
    /\ branch_out = <<"RuntimeError">>

\* the string has a digit somewhere
HasDigit(v) == \E i \in 1..Len(v) : v[i] \in Digits

InvalidVersion ==
    [status |-> "ValueError", msg |-> "Invalid version.", value |-> <<>>]

\* C25: parsing a version string fails with "Invalid version." exactly when
\* the string has no digit; get_latest_version fails with that error exactly
\* when the current version has no digit; a candidate without a digit is no
\* error, and it is returned only when no candidate has a digit.
C25_InvalidOnlyWithoutDigit ==
    /\ \A v \in Candidates \cup {current_version} :
           _parse_version(v).ok <=> HasDigit(v)
    /\ latest # Unset =>
           /\ (latest = InvalidVersion) <=> ~HasDigit(current_version)
           /\ (HasDigit(current_version) /\ version_list # <<>>) => Returned
           /\ (Returned /\ \E c \in Candidates : HasDigit(c)) =>
                  HasDigit(latest.value)

\* C25 happens: the first candidate has no digit, a later one has, and the
\* later one was returned
C25_Witness ==
    /\ Returned
    /\ Len(version_list) >= 2
    /\ ~HasDigit(version_list[1])
    /\ HasDigit(latest.value)

\* the current version has no digit and the selection has failed
C25_WitnessInvalid ==
    /\ latest = InvalidVersion
    /\ ~HasDigit(current_version)
    /\ \E c \in Candidates : HasDigit(c)

(***************************************************************************)
(* updater_utils.create_updater                                            *)
(***************************************************************************)

\* an archive that is not on github
OtherArchiveUrl == <<"https", "://", "example.org", "/", "x.zip">>

\* GITHUB_URL_RE.match(value)
MatchesGithubUrl(value) ==
    /\ Len(value) >= 9
    /\ SubSeq(value, 1, 4) = <<"https", "://", "github.com", "/">>
    /\ value[6] = "/"
    /\ value[8] = "/"
    /\ value[9] \in {"releases/download/", "archive/"}

\* str.lower on the identifier types of the model
LowerType(type) ==
    CASE type = "Archive" -> "archive"
      [] type = "ARCHIVE" -> "archive"
      [] type = "Git" -> "git"
      [] OTHER -> type

\* updater_cls(proj_path, url, version).is_supported_url()
is_supported_url(cls, url, valid) ==
    IF cls = "GithubArchiveUpdater"
    THEN LowerType(url.type) = "archive" /\ MatchesGithubUrl(url.value)
    ELSE url.value \in valid

\* the loop over the classes is the outer one
RECURSIVE create_updater_ClassesFirst(_, _, _, _, _)
create_updater_ClassesFirst(urls, updaters, valid, i, j) ==
    IF j > Len(updaters) THEN [status |-> "ValueError", cls |-> "", url |-> 0]
    ELSE IF i > Len(urls)
    THEN create_updater_ClassesFirst(urls, updaters, valid, 1, j + 1)
    ELSE IF is_supported_url(updaters[j], urls[i], valid)
    THEN [status |-> "ok", cls |-> updaters[j], url |-> i]
    ELSE create_updater_ClassesFirst(urls, updaters, valid, i + 1, j)

\* create_updater from url number i and class number j on: the class and the
\* url of the updater returned, or ValueError('No supported URL.')
RECURSIVE create_updater(_, _, _, _, _)
create_updater(urls, updaters, valid, i, j) ==
    IF i > Len(urls) THEN [status |-> "ValueError", cls |-> "", url |-> 0]
    ELSE IF j > Len(updaters)
    THEN create_updater(urls, updaters, valid, i + 1, 1)
    ELSE IF is_supported_url(updaters[j], urls[i], valid)
    THEN [status |-> "ok", cls |-> updaters[j], url |-> i]
    ELSE create_updater(urls, updaters, valid, i, j + 1)

\* the urls of a METADATA file
UrlPool ==
    {[type |-> "Git", value |-> GitUrlA, version |-> <<>>],
     [type |-> "Git", value |-> GitUrlB, version |-> <<>>],
     [type |-> "Archive", value |-> ArchiveUrlA, version |-> <<>>],
     [type |-> "ARCHIVE", value |-> OtherArchiveUrl, version |-> <<>>],
     [type |-> "Homepage", value |-> ArchiveUrlB, version |-> <<>>]}

MaxUrls == 2

\* the lists of Updater classes
UpdaterLists ==
    {<<"GithubArchiveUpdater", "GitUpdater">>,
     <<"GitUpdater", "GithubArchiveUpdater">>,
     <<"GitUpdater">>, <<"GithubArchiveUpdater">>}

InitCreate ==
    /\ url_list \in UNION {[1..n -> UrlPool] : n \in 0..MaxUrls}
    /\ updater_list \in UpdaterLists
    /\ valid_urls \in SUBSET {GitUrlA, GitUrlB, ArchiveUrlB}
    /\ create_out = CreateUnset
    /\ VersionIdle
    /\ UpdaterIdle
    /\ DescribeIdle
    /\ AncestorIdle
    /\ MergeIdle
    /\ BatchIdle
    /\ BranchIdle
    /\ TreeIdle
    /\ AnswerIdle

\* one call create_updater(metadata, proj_path, updaters)
CreateUpdater ==
    /\ create_out = CreateUnset
    /\ create_out' = create_updater(url_list, updater_list, valid_urls, 1, 1)
    /\ UNCHANGED <<url_list, updater_list, valid_urls>>
    /\ UNCHANGED version_vars
    /\ UNCHANGED updater_vars
    /\ UNCHANGED <<describe_vars, ancestor_vars, merge_vars, batch_vars>>
    /\ UNCHANGED <<branch_vars, tree_vars, answer_vars>>

NextCreate == CreateUpdater

SpecCreate == InitCreate /\ [][NextCreate]_vars

\* the pairs <<url number, class number>> whose updater supports its url
SupportedPairs ==
    {q \in (1..Len(url_list)) \X (1..Len(updater_list)) :
        is_supported_url(updater_list[q[2]], url_list[q[1]], valid_urls)}

\* pair a is tried before pair b
TriedBefore(a, b) == a[1] < b[1] \/ (a[1] = b[1] /\ a[2] < b[2])

C26_WitnessRaised ==
    /\ create_out.status = "ValueError"
    /\ Len(url_list) = MaxUrls

(***************************************************************************)
(* fileutils.find_tree_containing                                          *)
(***************************************************************************)

\* Path.parent: the root is its own parent
parent(path) ==
    IF Len(path) <= 1 THEN path ELSE SubSeq(path, 1, Len(path) - 1)

\* the path is looked up below the working directory although it is absolute
RepoExists_BelowCwd(path, dirs, dir) == (dir \o Tail(path)) \in dirs

\* (path / ".repo").exists(): an absolute path is looked up as it is, a
\* relative one below the working directory
RepoExists(path, dirs, dir) ==
    IF Head(path) = "/" THEN path \in dirs ELSE (dir \o path) \in dirs

MaxDepth == 3

DirNames == {"a", "b"}

\* the absolute paths of at most MaxDepth components
AbsolutePaths ==
    {RootPath \o q : q \in UNION {[1..n -> DirNames] : n \in 0..MaxDepth}}

\* the project path is absolute (Updater.__init__); at most two directories
\* have a .repo entry
InitTree ==
    /\ repo_dirs \in {{}} \cup {{q, o} : q, o \in AbsolutePaths}
    /\ cwd \in {RootPath, <<"/", "a">>}
    /\ tree_project \in AbsolutePaths
    /\ tree_pos = tree_project
    /\ tree_out = TreeUnset
    /\ VersionIdle
    /\ UpdaterIdle
    /\ DescribeIdle
    /\ AncestorIdle
    /\ MergeIdle
    /\ BatchIdle
    /\ BranchIdle
    /\ CreateIdle
    /\ AnswerIdle

\* one call of find_tree_containing, with argument tree_pos: return it,
\* raise at the root, or call with the parent
FindTreeContaining ==
    /\ tree_out = TreeUnset
    /\ IF RepoExists(tree_pos, repo_dirs, cwd)
       THEN tree_out' = tree_pos /\ UNCHANGED tree_pos
       ELSE IF parent(tree_pos) = tree_pos
       THEN tree_out' = <<"FileNotFoundError">> /\ UNCHANGED tree_pos
       ELSE tree_pos' = parent(tree_pos) /\ UNCHANGED tree_out
    /\ UNCHANGED <<repo_dirs, cwd, tree_project>>
    /\ UNCHANGED version_vars
    /\ UNCHANGED updater_vars
    /\ UNCHANGED <<describe_vars, ancestor_vars, merge_vars, batch_vars>>
    /\ UNCHANGED <<branch_vars, create_vars, answer_vars>>

NextTree == FindTreeContaining

\* the interpreter goes on with a call that has begun
SpecTree == InitTree /\ [][NextTree]_vars /\ WF_vars(NextTree)

\* the lengths of the project path and of its ancestors that have .repo
TreesAbove ==
    {k \in 1..Len(tree_project) : SubSeq(tree_project, 1, k) \in repo_dirs}

\* C27: find_tree_containing(project) always terminates; it returns the
\* nearest directory among project and its ancestors that has a .repo entry,
\* whatever the current working directory is, and raises FileNotFoundError
\* when the root is reached and none was found.
C27_NearestTreeAndTerminates ==
    /\ [](tree_out # TreeUnset =>
              tree_out =
                  IF TreesAbove = {} THEN <<"FileNotFoundError">>
                  ELSE SubSeq(tree_project, 1,
                           CHOOSE k \in TreesAbove :
                               \A j \in TreesAbove : j <= k))
    /\ <>(tree_out # TreeUnset)

\* C27 happens: two ancestors of the project have .repo, the working
\* directory is in neither tree, and the nearer one was returned
C27_Witness ==
    /\ Cardinality(TreesAbove) = 2
    /\ tree_out = tree_pos
    /\ Len(tree_out) < Len(tree_project)
    /\ Len(tree_out) > 1
    /\ cwd = <<"/", "a">>
    /\ tree_project[2] = "b"

\* no tree: the root was reached and FileNotFoundError raised
C27_WitnessRaised ==
    /\ tree_out = <<"FileNotFoundError">>
    /\ tree_pos = RootPath
    /\ Len(tree_project) = MaxDepth + 1
    /\ repo_dirs # {}

\* the steps done so far
StepsDone == {steps[i] : i \in 1..Len(steps)}

\* how often a step was done
TimesDone(step) == Cardinality({i \in 1..Len(steps) : steps[i] = step})

\* the position of a step that was done
PositionOf(step) == CHOOSE i \in 1..Len(steps) : steps[i] = step

\* step b was done only after step a
DoneAfter(a, b) ==
    b \in StepsDone => a \in StepsDone /\ PositionOf(a) < PositionOf(b)

\* the positions inside the try block of _do_update
TrySteps == {"update", "write_metadata", "commit", "post_update", "run_build"}

\* the command has ended with an exception
Raised == pc = "idle" /\ op_result \notin {"ok", "none"}

\* check before update, update before the metadata write, that before the
\* commit; at most one push: after the commit, with no_upload false, not
\* after a failed build and not after a rollback
StepsOrdered ==
    /\ DoneAfter("check", "update")
    /\ DoneAfter("update", "write_metadata")
    /\ DoneAfter("write_metadata", "commit")
    /\ DoneAfter("commit", "push")
    /\ TimesDone("push") <= 1
    /\ "push" \in StepsDone =>
           /\ ~args.no_upload
           /\ "build failed" \notin StepsDone
           /\ "rollback" \notin StepsDone
           /\ steps[Len(steps)] = "push"
    /\ TimesDone("rollback") <= 1
    /\ "rollback" \in StepsDone => Raised /\ steps[Len(steps)] = "rollback"

\* C28 as stated: the steps are ordered, and whenever a step from update to
\* build raises, the build included, updater.rollback() is invoked once and
\* the exception is raised again.
C28_EveryFailureRollsBack ==
    /\ []StepsOrdered
    /\ []("build failed" \in StepsDone => "rollback" \in StepsDone /\ Raised)

\* C28: in every run check completes before update, update precedes the
\* metadata write and that the commit; push happens at most once, only after
\* the commit, only when no_upload is false and never after a build failure;
\* an exception of a step of the try block, other than the
\* CalledProcessError of the build, invokes updater.rollback() exactly once
\* and is raised again, with no push; the CalledProcessError of the build is
\* logged and ends _do_update without rollback, without push and without an
\* exception.
C28_StepsOrderedRollbackOnce ==
    /\ []StepsOrdered
    /\ [][(pc \in TrySteps /\ Raised') =>
              /\ steps' = Append(steps, "rollback")
              /\ "rollback" \notin StepsDone]_vars
    /\ []("build failed" \in StepsDone =>
              /\ pc = "idle" /\ op_result = "ok"
              /\ "rollback" \notin StepsDone
              /\ "push" \notin StepsDone)

\* C28 happens: the commit was made, a later step of the try block raised,
\* rollback was invoked and the exception raised again
C28_Witness ==
    /\ Raised
    /\ steps = <<"check", "start_branch", "update", "write_metadata",
                 "commit", "rollback">>

\* a whole update, pushed at the end
C28_WitnessPushed ==
    steps = <<"check", "start_branch", "update", "write_metadata", "commit",
              "post_update", "build", "push">>

\* the build has failed: the update stays, nothing is pushed
C28_WitnessBuildFailed ==
    /\ steps # <<>>
    /\ steps[Len(steps)] = "build failed"
    /\ pc = "idle"

\* no existing remote has a url with "://" together with
\* "/platform/external/" or "/toolchain/"
NoAndroidRemote ==
    \A name \in RemoteNames :
        \/ remotes[name] = None
        \/ ~InUrl("://", remotes[name])
        \/ ~(InUrl("/platform/external/", remotes[name])
               \/ InUrl("/toolchain/", remotes[name]))

\* C29: when GitUpdater.setup_remote finds no android remote among the
\* existing remotes it raises before any mutation: no remote is removed or
\* added and nothing is fetched, so the remotes are as they were.
C29_NoAndroidRemoteNoMutation ==
    /\ [](op_result = AndroidRemoteError => pc = "idle" /\ NoAndroidRemote)
    /\ [][op_result' = AndroidRemoteError =>
              /\ remotes' = remotes
              /\ fetched_from' = fetched_from
              /\ setup_done' = setup_done]_vars
    /\ [][(updater_cls = "GitUpdater" /\ NoAndroidRemote) =>
              /\ remotes' = remotes
              /\ fetched_from' = fetched_from
              /\ pc' = "idle"]_vars

\* C29 happens: update_origin points at another url and would have been
\* replaced, but no android remote was found and the error raised
C29_Witness ==
    /\ op_result = AndroidRemoteError
    /\ NoAndroidRemote
    /\ remotes[UPSTREAM_REMOTE_NAME] # None
    /\ remotes[UPSTREAM_REMOTE_NAME] # old_identifier.value
    /\ fetched_from = None

(***************************************************************************)
(* external_updater.use_alternative_version: the answer of the user        *)
(***************************************************************************)

MaxAnswerLen == 3

\* the keys the user has
AnswerKeys == {"y", "e", "s", "n", "o", "Y", "N", "m"}

\* every answer of at most MaxAnswerLen keys, the empty one included
TypedAnswers == UNION {[1..n -> AnswerKeys] : n \in 0..MaxAnswerLen}

InitAnswer ==
    /\ user_answer \in TypedAnswers
    /\ answer_out = "unset"
    /\ VersionIdle
    /\ UpdaterIdle
    /\ DescribeIdle
    /\ AncestorIdle
    /\ MergeIdle
    /\ BatchIdle
    /\ BranchIdle
    /\ CreateIdle
    /\ TreeIdle

\* answer = input(warning) and the decision of use_alternative_version
UseAlternativeVersion ==
    /\ answer_out = "unset"
    /\ answer_out' = use_alternative_version(user_answer)
    /\ UNCHANGED user_answer
    /\ UNCHANGED version_vars
    /\ UNCHANGED updater_vars
    /\ UNCHANGED <<describe_vars, ancestor_vars, merge_vars, batch_vars>>
    /\ UNCHANGED <<branch_vars, create_vars, tree_vars>>

NextAnswer == UseAlternativeVersion

SpecAnswer == InitAnswer /\ [][NextAnswer]_vars

\* "yes" or its beginning, in any letter case: y, ye, yes
Affirmative(answer) ==
    LowerAnswer(answer) \in {<<"y">>, <<"y", "e">>, <<"y", "e", "s">>}

\* C30: use_alternative_version returns True only for "yes" or a similar
\* affirmative, False only for an answer that starts with "no", and raises
\* ValueError for every other answer, the empty answer included.
C30_OnlyYesOrNoElseAbort ==
    answer_out # "unset" =>
        answer_out =
            IF Affirmative(user_answer) THEN "True"
            ELSE IF startswith(LowerAnswer(user_answer), <<"n", "o">>)
            THEN "False"
            ELSE "ValueError"

====
